---------------------------- MODULE Spec2Model ----------------------------
(***************************************************************************)
(* Model of the redpill gateway's stateful core:                           *)
(*   - the sliding-window rate limiter (middlewares/rateLimiter),          *)
(*   - admission by budget and the spend queue worker                      *)
(*     (middlewares/virtualKeyValidator, services/spendQueue),             *)
(*   - the OpenAI -> Anthropic stream transform                            *)
(*     (providers/openai-to-anthropic/messagesStreamTransform),            *)
(*   - key validation (middlewares/virtualKeyValidator),                   *)
(*   - the rate limiter middleware and its 429 response,                   *)
(*   - the usage-extracting transform of the spend logger                  *)
(*     (middlewares/spendLog).                                             *)
(* Each part has its own specification over its own variables.            *)
(***************************************************************************)
EXTENDS Integers, Sequences, FiniteSets, TLC

(***************************************************************************)
(* Bounds of the model                                                     *)
(***************************************************************************)
\* seconds between two readings of the wall clock
ClockStep == 10
\* last reading of the wall clock
MaxNow == 110
\* largest requests-per-minute limit of the account
MaxLimit == 2
\* number of concurrent callers of checkAndIncrementRateLimit
NumCallers == 2
\* longest time, in seconds, from a call's clock reading to its last Redis command
MaxLatency == 10

(***************************************************************************)
(* Program constants                                                       *)
(***************************************************************************)
WINDOW_SIZE_SECONDS == 60

(***************************************************************************)
(* Helpers                                                                 *)
(***************************************************************************)
Max(a, b) == IF a >= b THEN a ELSE b

Min(a, b) == IF a <= b THEN a ELSE b

(***************************************************************************)
(* Rate limiter: state                                                     *)
(***************************************************************************)
VARIABLES
  now,        \* wall clock, seconds (Math.floor(Date.now() / 1000))
  rlLimit,    \* rpm limit of the account (user.rate_limit_rpm ?? default)
  rlStore,    \* Redis keys ratelimit:<user>:<window> -> [live, count, expireAt]
  rlPc,       \* position of each caller inside checkAndIncrementRateLimit
  rlNow,      \* `now` captured by each caller at line 11
  rlAllowed,  \* history: timestamps of the calls that returned allowed=true
  rlDenied    \* history: number of calls returning allowed=false

rlVars == <<now, rlLimit, rlStore, rlPc, rlNow, rlAllowed, rlDenied>>

VARIABLES
  userBudgetLimit,  \* users.budget_limit, tenths, or NoLimit
  userBudgetUsed,   \* users.budget_used, tenths
  userCredits,      \* users.credits
  keyBudgetUsed,    \* virtual_keys.budget_used, tenths
  inflight,         \* admitted requests whose response has not been logged
  nextId,           \* number of the next admitted request
  rejected,         \* history: some request was refused for its budget
  queue,            \* Redis list spend:queue, head first
  lockTtl,          \* seconds the key spend:lock has left, 0 when absent
  wPc,              \* position of each worker inside processSpendQueue
  wLen,             \* queueLength read by the worker
  wBatch,           \* spendDataList of the worker
  wFailed,          \* the settlement writes of the worker's batch that threw
  chRows,           \* ids of the rows inserted into spend_logs
  popCount,         \* history: times each record was popped
  userCharged,      \* history: times each record was in an applied account sum
  keyCharged        \* history: times each record was in an applied key sum

sqVars == <<userBudgetLimit, userBudgetUsed, userCredits, keyBudgetUsed,
            inflight, nextId, rejected, queue, lockTtl, wPc, wLen, wBatch,
            wFailed, chRows, popCount, userCharged, keyCharged>>

admissionVars == <<userBudgetLimit, inflight, nextId, rejected>>

storeVars == <<userBudgetUsed, userCredits, keyBudgetUsed, chRows,
               userCharged, keyCharged>>

workerVars == <<wPc, wLen, wBatch, wFailed>>

VARIABLES
  stState,  \* the OpenAIToAnthropicStreamState object of the stream
  stIn,     \* history: the lines fed to the transform so far
  stOut,    \* the events written downstream so far
  stLast,   \* the return value of the last call of the transform
  stEnded   \* the upstream has closed the stream

stVars == <<stState, stIn, stOut, stLast, stEnded>>

VARIABLES
  vkUserLimit,  \* users.budget_limit of the account of the stored keys
  vkUserUsed,   \* users.budget_used of that account
  vkCredits,    \* users.credits of that account
  vkKeyLimit,   \* virtual_keys.budget_limit of the stored keys
  vkKeyUsed,    \* virtual_keys.budget_used of the stored keys
  vkRequest,    \* the request handed to virtualKeyValidator
  vkResponse,   \* the response returned by virtualKeyValidator, if any
  vkContext,    \* the value set as 'virtualKeyContext', if any
  vkForwarded   \* next() was called

vkVars == <<vkUserLimit, vkUserUsed, vkCredits, vkKeyLimit, vkKeyUsed,
            vkRequest, vkResponse, vkContext, vkForwarded>>

VARIABLES
  rmClock,       \* position of the wall clock in ScenarioTimes
  rmRpm,         \* user.rate_limit_rpm of the account, or NullRpm
  rmTier,        \* user.user_tier of the account
  rmStore,       \* Redis keys ratelimit:<user>:<window>
  rmCalls,       \* history: calls of checkAndIncrementRateLimit that returned, per instant
  rmAdmitted,    \* history: of those, the calls followed by next(), per instant
  rmRetryAfter,  \* history: the Retry-After values of the 429 responses, per instant
  rmErrors,      \* history: number of requests in which a Redis command threw
  rmLast         \* the outcome of the last request through rateLimiter

rmVars == <<rmClock, rmRpm, rmTier, rmStore, rmCalls, rmAdmitted,
            rmRetryAfter, rmErrors, rmLast>>

VARIABLES
  slAccount,  \* virtualKeyContext.virtualKeyWithUser is set
  slIn,       \* history: the chunks written to the transform by the upstream side
  slOut,      \* the chunks the transform has enqueued for the caller
  slUsage,    \* streamUsage
  slPhase,    \* "open", "flushed" (flush() has returned), "closed" (body drained)
  slRecord,   \* the usage record handed to processSpendData by flush()
  slEnqueue,  \* the enqueue of that record: "none", "pending", "done", "failed"
  slQueue     \* Redis list spend:queue, head first

slVars == <<slAccount, slIn, slOut, slUsage, slPhase, slRecord, slEnqueue,
            slQueue>>

VARIABLES
  agBatch,     \* spendDataList: the decoded records of one batch
  agUserUsed,  \* users.budget_used, tenths
  agKeyUsed,   \* virtual_keys.budget_used, tenths
  agUsers,     \* the keys of the map userSpends handed to the account update
  agKeys,      \* the keys of the map keySpends handed to the key update
  agRows,      \* the rows handed to insertSpendLogs, by record id
  agSettled    \* the batch has been aggregated and written

agVars == <<agBatch, agUserUsed, agKeyUsed, agUsers, agKeys, agRows, agSettled>>

VARIABLES
  mcClock,    \* wall clock of the cache, seconds
  mcCache,    \* Redis keys model-deployment:<model> -> [live, json, expireAt]
  mcQueries,  \* history: queries of the persistent store, per model
  mcHits,     \* history: resolves answered from the cache, per model
  mcLast      \* the last resolve: model, result, whether the store was queried

mcVars == <<mcClock, mcCache, mcQueries, mcHits, mcLast>>

VARIABLES
  sdPc,        \* "serving", "stopped", "closed", "exited"
  sdSignal,    \* the signal that started the shutdown, "" before it
  sdTimer,     \* TRUE while the setInterval of the spend processor is set
  sdPoolOpen,  \* the Postgres pool is open
  sdRedisOpen, \* the Redis client is open
  sdQueue,     \* spend:queue, head first
  sdNextId,    \* the next record id
  sdSettled,   \* ids of the records a worker tick has settled
  sdAtSignal   \* history: the ids queued when the signal arrived

sdVars == <<sdPc, sdSignal, sdTimer, sdPoolOpen, sdRedisOpen, sdQueue,
            sdNextId, sdSettled, sdAtSignal>>

VARIABLES
  utStatus,    \* the HTTP status of the upstream response
  utResponse,  \* the OpenAI chat completion (or error) body
  utResult     \* what the transform returned, NoResult before the call

utVars == <<utStatus, utResponse, utResult>>

VARIABLES
  rcLimit,   \* the caller's limit per minute
  rcNow,     \* the second of the call
  rcPrev,    \* the previous window's counter before the call
  rcCurr,    \* the current window's counter before the call
  rcStore,   \* the Redis keys ratelimit:<user>:<window>
  rcResult   \* what checkAndIncrementRateLimit returned, NoRcResult before

rcVars == <<rcLimit, rcNow, rcPrev, rcCurr, rcStore, rcResult>>

VARIABLES
  dqQueue,    \* spend:queue, head first; a record is its enqueue number
  dqNextId,   \* the enqueue number of the next record
  dqEnqueued, \* records enqueued since the start
  dqLock,     \* spend:processing:lock is set
  dqPc,       \* the worker: "idle", "len", "pop", "settle"
  dqLen,      \* the queue length the tick read
  dqAtLen,    \* history: the queue when the tick read its length
  dqDuring,   \* history: records enqueued since the tick read the length
  dqBatch,    \* the records the tick popped, in pop order
  dqTicks     \* ticks that took the lease

dqVars == <<dqQueue, dqNextId, dqEnqueued, dqLock, dqPc, dqLen, dqAtLen,
            dqDuring, dqBatch, dqTicks>>

VARIABLES
  tmSystem,    \* params.system of the Anthropic request
  tmMessages,  \* params.messages of the Anthropic request
  tmResult,    \* the OpenAI messages transformMessages returned
  tmDone       \* transformMessages has run

tmVars == <<tmSystem, tmMessages, tmResult, tmDone>>

vars == <<rlVars, sqVars, stVars, vkVars, rmVars, slVars, agVars, mcVars,
          sdVars, utVars, rcVars, dqVars, tmVars>>

\* the variables of the other parts
notRL == <<sqVars, stVars, vkVars, rmVars, slVars, agVars, mcVars, sdVars,
           utVars, rcVars, dqVars, tmVars>>

notSQ == <<rlVars, stVars, vkVars, rmVars, slVars, agVars, mcVars, sdVars,
           utVars, rcVars, dqVars, tmVars>>

notST == <<rlVars, sqVars, vkVars, rmVars, slVars, agVars, mcVars, sdVars,
           utVars, rcVars, dqVars, tmVars>>

notVK == <<rlVars, sqVars, stVars, rmVars, slVars, agVars, mcVars, sdVars,
           utVars, rcVars, dqVars, tmVars>>

notRM == <<rlVars, sqVars, stVars, vkVars, slVars, agVars, mcVars, sdVars,
           utVars, rcVars, dqVars, tmVars>>

notSL == <<rlVars, sqVars, stVars, vkVars, rmVars, agVars, mcVars, sdVars,
           utVars, rcVars, dqVars, tmVars>>

notAG == <<rlVars, sqVars, stVars, vkVars, rmVars, slVars, mcVars, sdVars,
           utVars, rcVars, dqVars, tmVars>>

notMC == <<rlVars, sqVars, stVars, vkVars, rmVars, slVars, agVars, sdVars,
           utVars, rcVars, dqVars, tmVars>>

notSD == <<rlVars, sqVars, stVars, vkVars, rmVars, slVars, agVars, mcVars,
           utVars, rcVars, dqVars, tmVars>>

notUT == <<rlVars, sqVars, stVars, vkVars, rmVars, slVars, agVars, mcVars,
           sdVars, rcVars, dqVars, tmVars>>

notRC == <<rlVars, sqVars, stVars, vkVars, rmVars, slVars, agVars, mcVars,
           sdVars, utVars, dqVars, tmVars>>

notDQ == <<rlVars, sqVars, stVars, vkVars, rmVars, slVars, agVars, mcVars,
           sdVars, utVars, rcVars, tmVars>>

notTM == <<rlVars, sqVars, stVars, vkVars, rmVars, slVars, agVars, mcVars,
           sdVars, utVars, rcVars, dqVars>>

Callers == 1..NumCallers

Instants == 0..MaxNow

\* window indices that a call can touch; -1 is the previous window of window 0
Windows == (-1)..(MaxNow \div WINDOW_SIZE_SECONDS)

\* expireAt of a key without TTL
NoExpiry == -1

NoKey == [live |-> FALSE, count |-> 0, expireAt |-> NoExpiry]

\* a key is visible while it exists and its TTL has not run out
KeyLive(store, w, t) ==
  /\ store[w].live
  /\ (store[w].expireAt = NoExpiry \/ t < store[w].expireAt)

\* GET key: Number(null) || 0 is 0 for a missing key
RedisGet(store, w, t) == IF KeyLive(store, w, t) THEN store[w].count ELSE 0

\* INCR key followed by EXPIRE key ttl
RedisIncrExpire(store, w, t, ttl) ==
  [store EXCEPT ![w] = [live |-> TRUE,
                        count |-> RedisGet(store, w, t) + 1,
                        expireAt |-> t + ttl]]

\* DECR key: keeps the TTL of a live key, creates a key without TTL otherwise
RedisDecr(store, w, t) ==
  [store EXCEPT ![w] = [live |-> TRUE,
                        count |-> RedisGet(store, w, t) - 1,
                        expireAt |-> IF KeyLive(store, w, t)
                                     THEN store[w].expireAt ELSE NoExpiry]]

\* Math.floor(x) of the IEEE double prev * (1 - s/60) + curr is one below the
\* exact value for these operands (all such cases with prev <= 8, curr <= 11)
DoubleDeficit(prev, curr, s) ==
  IF <<prev, curr, s>> \in {<<5, 0, 48>>, <<5, 1, 48>>, <<6, 0, 50>>, <<6, 1, 50>>}
  THEN 1 ELSE 0

\* Math.floor(prevCount * (1 - windowProgress) + currCount)
EstimatedCount(prev, curr, t) ==
  LET s == t % WINDOW_SIZE_SECONDS
  IN  curr + ((prev * (WINDOW_SIZE_SECONDS - s)) \div WINDOW_SIZE_SECONDS)
      - DoubleDeficit(prev, curr, s)

CurrentWindow(t) == t \div WINDOW_SIZE_SECONDS

\* an off-by-one admission test
AllowedOffByOne(estimated, limit) == estimated <= limit + 1

\* line 44: allowed = estimatedCount <= limit
Allowed(estimated, limit) == estimated <= limit

\* the wall clock advances
Tick ==
  /\ now + ClockStep <= MaxNow
  /\ \A c \in Callers : rlPc[c] # "idle" => (now + ClockStep) - rlNow[c] <= MaxLatency
  /\ now' = now + ClockStep
  /\ UNCHANGED <<rlLimit, rlStore, rlPc, rlNow, rlAllowed, rlDenied>>
  /\ UNCHANGED notRL

\* lines 10-24: the call reads the clock and builds its two keys
RLStart(c) ==
  /\ rlPc[c] = "idle"
  /\ rlPc' = [rlPc EXCEPT ![c] = "multi"]
  /\ rlNow' = [rlNow EXCEPT ![c] = now]
  /\ UNCHANGED <<now, rlLimit, rlStore, rlAllowed, rlDenied>>
  /\ UNCHANGED notRL

\* lines 27-54: MULTI (GET prev, INCR curr, EXPIRE curr), the estimate and,
\* for an allowed call, the return
RLExec(c) ==
  /\ rlPc[c] = "multi"
  /\ LET w == CurrentWindow(rlNow[c])
         prevCount == RedisGet(rlStore, w - 1, now)
         store1 == RedisIncrExpire(rlStore, w, now, WINDOW_SIZE_SECONDS * 2)
         currCount == store1[w].count
         estimatedCount == EstimatedCount(prevCount, currCount, rlNow[c])
     IN  /\ rlStore' = store1
         /\ IF Allowed(estimatedCount, rlLimit)
            THEN /\ rlPc' = [rlPc EXCEPT ![c] = "idle"]
                 /\ rlNow' = [rlNow EXCEPT ![c] = 0]
                 /\ rlAllowed' = Append(rlAllowed, rlNow[c])
                 /\ UNCHANGED rlDenied
            ELSE /\ rlPc' = [rlPc EXCEPT ![c] = "rollback"]
                 /\ UNCHANGED <<rlNow, rlAllowed, rlDenied>>
  /\ UNCHANGED <<now, rlLimit>>
  /\ UNCHANGED notRL

\* lines 47-54: roll the increment back and return allowed=false
RLRollback(c) ==
  /\ rlPc[c] = "rollback"
  /\ rlStore' = RedisDecr(rlStore, CurrentWindow(rlNow[c]), now)
  /\ rlPc' = [rlPc EXCEPT ![c] = "idle"]
  /\ rlNow' = [rlNow EXCEPT ![c] = 0]
  /\ rlDenied' = Min(rlDenied + 1, 1)
  /\ UNCHANGED <<now, rlLimit, rlAllowed>>
  /\ UNCHANGED notRL

RLNext ==
  \/ Tick
  \/ \E c \in Callers : RLStart(c)
  \/ \E c \in Callers : RLExec(c)
  \/ \E c \in Callers : RLRollback(c)

(***************************************************************************)
(* Admission by budget and the spend queue: bounds and constants           *)
(***************************************************************************)
\* number of requests of one behaviour
MaxRequests == 2
\* seconds that pass in one step of the lease clock
LeaseClockStep == 15
\* number of gateway replicas running the spend processor
NumWorkers == 2

\* SpendQueue.LOCK_TTL, seconds
LOCK_TTL == 30
\* largest batch of one drain
MAX_BATCH == 500
\* credit units deducted per unit of cost
CREDIT_MULTIPLIER == 2000000
\* money is counted in tenths of a unit of cost
MoneyScale == 10

Users == {1, 2}

Keys == {1, 2}

\* virtual_keys.user_id
KeyOwner(k) == k

\* virtual_keys.metadata.type
KeyType(k) == IF k = 2 THEN "subscription" ELSE "regular"

\* budget_limit NULL: the schema turns it into undefined
NoLimit == -1

\* virtual_keys.budget_limit, tenths
KeyBudgetLimit(k) == IF k = 2 THEN 3 ELSE NoLimit

Workers == 1..NumWorkers

RequestIds == 1..MaxRequests

\* (input_tokens, output_tokens) reported by the upstream
Usages == {<<0, 0>>, <<1, 1>>}

\* deployment.config.input_cost_per_token / output_cost_per_token, tenths
Pricing == [inputCostPerToken |-> 1, outputCostPerToken |-> 2]

\* the comparison is strict: a budget used up to the limit still passes
BudgetExceededStrict(limit, used) == limit # NoLimit /\ used > limit

\* budget_limit !== undefined && budget_used.gte(budget_limit)
BudgetExceeded(limit, used) == limit # NoLimit /\ used >= limit

\* spend mode of a request by the classification of the admission controller
SpendMode(k) ==
  IF KeyType(k) = "subscription"
  THEN IF keyBudgetUsed[k] < KeyBudgetLimit(k) THEN "subscription"
       ELSE "subscription_overflow"
  ELSE "regular"

\* handleAuthenticatedUser: the account budget, then the key budget, then the
\* request context
Admit(k) ==
  /\ IF \/ BudgetExceeded(userBudgetLimit[KeyOwner(k)], userBudgetUsed[KeyOwner(k)])
        \/ BudgetExceeded(KeyBudgetLimit(k), keyBudgetUsed[k])
     THEN /\ rejected' = TRUE
          /\ UNCHANGED <<inflight, nextId>>
     ELSE /\ nextId <= MaxRequests
          /\ inflight' = inflight \cup
                 {[id |-> nextId, userId |-> KeyOwner(k), virtualKeyId |-> k,
                   mode |-> SpendMode(k), pricing |-> Pricing]}
          /\ nextId' = nextId + 1
          /\ UNCHANGED rejected
  /\ UNCHANGED <<userBudgetLimit, queue, lockTtl>>
  /\ UNCHANGED storeVars
  /\ UNCHANGED workerVars
  /\ UNCHANGED popCount
  /\ UNCHANGED notSQ

\* processSpendData builds the record
QueueData(r, usage) ==
  [id |-> r.id, userId |-> r.userId, virtualKeyId |-> r.virtualKeyId,
   mode |-> r.mode,
   input_tokens |-> usage[1], output_tokens |-> usage[2],
   pricing |-> r.pricing]

\* LPUSH key value
RedisLPush(q, v) == <<v>> \o q

\* spendLogger / processSpendData / enqueueSpendData: the usage of the response
\* is pushed to the queue
LogSpend(r, usage) ==
  /\ r \in inflight
  /\ inflight' = inflight \ {r}
  /\ queue' = RedisLPush(queue, QueueData(r, usage))
  /\ UNCHANGED <<userBudgetLimit, nextId, rejected, lockTtl, popCount>>
  /\ UNCHANGED storeVars
  /\ UNCHANGED workerVars
  /\ UNCHANGED notSQ

\* time passes on the Redis server: the lease runs towards its expiry
LeaseClock ==
  /\ lockTtl > 0
  /\ lockTtl' = Max(0, lockTtl - LeaseClockStep)
  /\ UNCHANGED <<queue, popCount>>
  /\ UNCHANGED admissionVars
  /\ UNCHANGED storeVars
  /\ UNCHANGED workerVars
  /\ UNCHANGED notSQ

\* lines 66-77: SET spend:lock locked PX 30000 NX; the tick is skipped when
\* the key exists
WAcquire(w) ==
  /\ wPc[w] = "idle"
  /\ lockTtl = 0
  /\ lockTtl' = LOCK_TTL
  /\ wPc' = [wPc EXCEPT ![w] = "len"]
  /\ UNCHANGED <<queue, popCount, wLen, wBatch, wFailed>>
  /\ UNCHANGED admissionVars
  /\ UNCHANGED storeVars
  /\ UNCHANGED notSQ

\* lines 80-85: LLEN; an empty queue ends the tick
WLen(w) ==
  /\ wPc[w] = "len"
  /\ wLen' = [wLen EXCEPT ![w] = Len(queue)]
  /\ wPc' = [wPc EXCEPT ![w] = IF Len(queue) = 0 THEN "release" ELSE "pop"]
  /\ UNCHANGED <<queue, lockTtl, popCount, wBatch, wFailed>>
  /\ UNCHANGED admissionVars
  /\ UNCHANGED storeVars
  /\ UNCHANGED notSQ

\* the values of n pops taken from the head of the list
RedisRPopValuesFromHead(q, n) ==
  [i \in 1..Min(n, Len(q)) |-> q[i]]

\* the values of n RPOPs in one MULTI, oldest first; a RPOP of the empty list
\* gives null, which the worker drops
RedisRPopValues(q, n) ==
  [i \in 1..Min(n, Len(q)) |-> q[Len(q) + 1 - i]]

\* RPOP reads without removing
RedisRPopRestKeepsAll(q, n) == q

\* the list after n RPOPs
RedisRPopRest(q, n) == SubSeq(q, 1, Len(q) - Min(n, Len(q)))

\* lines 87-117: pop min(500, queueLength) records; no record ends the tick
WPop(w) ==
  /\ wPc[w] = "pop"
  /\ LET batchSize == Min(MAX_BATCH, wLen[w])
         spendDataList == RedisRPopValues(queue, batchSize)
     IN  /\ queue' = RedisRPopRest(queue, batchSize)
         /\ wBatch' = [wBatch EXCEPT ![w] = spendDataList]
         /\ popCount' = [i \in RequestIds |->
               popCount[i] +
               Cardinality({j \in DOMAIN spendDataList : spendDataList[j].id = i})]
         /\ wPc' = [wPc EXCEPT ![w] =
               IF Len(spendDataList) = 0 THEN "release" ELSE "write"]
         /\ wLen' = [wLen EXCEPT ![w] = 0]
  /\ UNCHANGED <<lockTtl, wFailed>>
  /\ UNCHANGED admissionVars
  /\ UNCHANGED storeVars
  /\ UNCHANGED notSQ

\* the output tokens are priced at the input price
RecordCostInputPriceOnly(r) ==
  r.input_tokens * r.pricing.inputCostPerToken
    + r.output_tokens * r.pricing.inputCostPerToken

\* lines 126-136: cost = input_tokens * input price + output_tokens * output price
RecordCost(r) ==
  r.input_tokens * r.pricing.inputCostPerToken
    + r.output_tokens * r.pricing.outputCostPerToken

RECURSIVE SumCosts(_, _, _)
\* lines 124-147: the sum of the non-zero costs of the records of one owner,
\* field being userId or virtualKeyId
SumCosts(batch, field, owner) ==
  IF batch = <<>> THEN 0
  ELSE LET r == Head(batch)
           cost == RecordCost(r)
       IN  (IF cost # 0 /\ r[field] = owner THEN cost ELSE 0)
             + SumCosts(Tail(batch), field, owner)

\* a row is prepared for every record, whatever its cost
ClickhouseLogsOfAll(batch) == {batch[i].id : i \in DOMAIN batch}

\* lines 138-168: one spend_logs row per record of non-zero cost
ClickhouseLogs(batch) ==
  {batch[i].id : i \in {j \in DOMAIN batch : RecordCost(batch[j]) # 0}}

\* updateUserBudgetsBatch: budget_used += cost
UpdateUserBudgetUsed(used, userSpends) ==
  [u \in Users |-> used[u] + userSpends[u]]

\* updateUserBudgetsBatch: credits -= cost * 2000000
UpdateUserCredits(credits, userSpends) ==
  [u \in Users |-> credits[u] - (userSpends[u] * CREDIT_MULTIPLIER) \div MoneyScale]

\* updateVirtualKeyBudgetsBatch: budget_used += cost
UpdateKeyBudgetUsed(used, keySpends) ==
  [k \in Keys |-> used[k] + keySpends[k]]

\* lines 119-189: the sums of the batch and the three concurrent writes, each
\* of which succeeds or throws
WWrite(w) ==
  /\ wPc[w] = "write"
  /\ \E failed \in SUBSET {"user", "key", "log"} :
       LET batch == wBatch[w]
           userSpends == [u \in Users |-> SumCosts(batch, "userId", u)]
           keySpends == [k \in Keys |-> SumCosts(batch, "virtualKeyId", k)]
           charged == ClickhouseLogs(batch)
       IN  /\ wFailed' = [wFailed EXCEPT ![w] = failed]
           /\ IF "user" \in failed
              THEN UNCHANGED <<userBudgetUsed, userCredits, userCharged>>
              ELSE /\ userBudgetUsed' = UpdateUserBudgetUsed(userBudgetUsed, userSpends)
                   /\ userCredits' = UpdateUserCredits(userCredits, userSpends)
                   /\ userCharged' = [i \in RequestIds |->
                         userCharged[i] + IF i \in charged THEN 1 ELSE 0]
           /\ IF "key" \in failed
              THEN UNCHANGED <<keyBudgetUsed, keyCharged>>
              ELSE /\ keyBudgetUsed' = UpdateKeyBudgetUsed(keyBudgetUsed, keySpends)
                   /\ keyCharged' = [i \in RequestIds |->
                         keyCharged[i] + IF i \in charged THEN 1 ELSE 0]
           /\ IF "log" \in failed
              THEN UNCHANGED chRows
              ELSE chRows' = chRows \cup charged
  /\ wPc' = [wPc EXCEPT ![w] = "release"]
  /\ UNCHANGED <<queue, lockTtl, popCount, wLen, wBatch>>
  /\ UNCHANGED admissionVars
  /\ UNCHANGED notSQ

\* the lease is left to run out
RedisDelSkipped(ttl) == ttl

\* DEL key: the key is gone, whatever time it had left
RedisDel(ttl) == 0

\* lines 190-193: DEL spend:lock, whoever holds it
WRelease(w) ==
  /\ wPc[w] = "release"
  /\ lockTtl' = RedisDel(lockTtl)
  /\ wPc' = [wPc EXCEPT ![w] = "idle"]
  /\ wLen' = [wLen EXCEPT ![w] = 0]
  /\ wBatch' = [wBatch EXCEPT ![w] = <<>>]
  /\ wFailed' = [wFailed EXCEPT ![w] = {}]
  /\ UNCHANGED <<queue, popCount>>
  /\ UNCHANGED admissionVars
  /\ UNCHANGED storeVars
  /\ UNCHANGED notSQ

SQNext ==
  \/ \E k \in Keys : Admit(k)
  \/ \E r \in inflight, usage \in Usages : LogSpend(r, usage)
  \/ LeaseClock
  \/ \E w \in Workers : WAcquire(w)
  \/ \E w \in Workers : WLen(w)
  \/ \E w \in Workers : WPop(w)
  \/ \E w \in Workers : WWrite(w)
  \/ \E w \in Workers : WRelease(w)

(***************************************************************************)
(* Stream transform: OpenAI SSE lines to Anthropic SSE events              *)
(***************************************************************************)
\* number of lines of one stream
MaxLines == 4

\* the streamState object {} handed to the first call
EmptyState ==
  [id |-> "", model |-> "", inputTokens |-> 0, outputTokens |-> 0,
   hasStarted |-> "undefined", contentBlockStarted |-> FALSE,
   currentContentIndex |-> 0, toolCallsStarted |-> {}, finishReason |-> ""]

\* initStreamState: the fields are set when hasStarted is undefined
InitStreamState(st) ==
  IF st.hasStarted = "undefined"
  THEN [id |-> "", model |-> "", inputTokens |-> 0, outputTokens |-> 0,
        hasStarted |-> "false", contentBlockStarted |-> FALSE,
        currentContentIndex |-> 0, toolCallsStarted |-> {}, finishReason |-> ""]
  ELSE st

\* the fallbackId argument of the transform
FallbackId == "fallback-id"

\* usage absent from a chunk
NoUsage == <<>>

\* a line "data: [DONE]"
DoneLine == [kind |-> "done"]

\* a line that is not JSON
GarbageLine == [kind |-> "garbage"]

\* a line "data: {...}" holding an OpenAI chunk; content is a sequence of
\* characters, empty when the delta has no content; the empty string stands
\* for an absent id, name, arguments or finish_reason
JsonLine(meta, usage, hasChoice, content, toolCalls, finishReason) ==
  [kind |-> "json",
   prefixed |-> TRUE,
   id |-> IF meta THEN "chatcmpl-1" ELSE "",
   model |-> IF meta THEN "gpt-x" ELSE "",
   usage |-> usage,
   hasChoice |-> hasChoice,
   content |-> content,
   tool_calls |-> toolCalls,
   finish_reason |-> finishReason]

\* a line holding the chunk alone, without the "data: " prefix: startsWith
\* fails, nothing is sliced off and the line is parsed as it is
BareJsonLine(meta, usage, hasChoice, content, toolCalls, finishReason) ==
  [JsonLine(meta, usage, hasChoice, content, toolCalls, finishReason)
     EXCEPT !.prefixed = FALSE]

ToolCall(index, id, name, arguments) ==
  [index |-> index, id |-> id, name |-> name, arguments |-> arguments]

\* the lines an upstream sends
StreamLines ==
  { DoneLine,
    GarbageLine,
    JsonLine(TRUE, NoUsage, TRUE, <<>>, <<>>, ""),
    JsonLine(TRUE, NoUsage, TRUE, <<"H", "e">>, <<>>, ""),
    JsonLine(TRUE, NoUsage, TRUE, <<"l", "l", "o">>, <<>>, ""),
    BareJsonLine(TRUE, NoUsage, TRUE, <<"H", "e">>, <<>>, ""),
    JsonLine(TRUE, NoUsage, TRUE, <<>>, <<ToolCall(0, "c1", "get_weather", "")>>, ""),
    JsonLine(TRUE, NoUsage, TRUE, <<>>, <<ToolCall(0, "", "", "{}")>>, ""),
    JsonLine(TRUE, NoUsage, TRUE, <<>>, <<ToolCall(1, "c2", "get_time", "{}")>>, ""),
    JsonLine(TRUE, NoUsage, TRUE, <<>>, <<>>, "stop"),
    JsonLine(TRUE, NoUsage, TRUE, <<>>, <<>>, "tool_calls"),
    JsonLine(TRUE, <<5, 7>>, TRUE, <<>>, <<>>, "length"),
    JsonLine(FALSE, <<5, 7>>, FALSE, <<>>, <<>>, ""),
    JsonLine(FALSE, <<0, 3>>, FALSE, <<>>, <<>>, "") }

\* mapFinishReason
MapFinishReason(finishReason) ==
  CASE finishReason = "stop" -> "end_turn"
    [] finishReason = "length" -> "max_tokens"
    [] finishReason \in {"tool_calls", "function_call"} -> "tool_use"
    [] finishReason = "content_filter" -> "end_turn"
    [] OTHER -> "end_turn"

\* generateMessageStartEvent
MessageStartEvent(st, chunk) ==
  [type |-> "message_start",
   id |-> IF chunk.id # "" THEN chunk.id
          ELSE IF st.id # "" THEN st.id ELSE FallbackId,
   model |-> IF chunk.model # "" THEN chunk.model
             ELSE IF st.model # "" THEN st.model ELSE "unknown",
   input_tokens |-> IF chunk.usage # NoUsage /\ chunk.usage[1] # 0
                    THEN chunk.usage[1] ELSE st.inputTokens]

\* generateTextBlockStartEvent
TextBlockStartEvent(index) ==
  [type |-> "content_block_start", index |-> index, block |-> "text"]

\* generateToolUseBlockStartEvent
ToolUseBlockStartEvent(index, id, name) ==
  [type |-> "content_block_start", index |-> index, block |-> "tool_use",
   id |-> id, name |-> name]

\* generateTextDeltaEvent
TextDeltaEvent(index, text) ==
  [type |-> "content_block_delta", index |-> index, delta |-> "text_delta",
   text |-> text]

\* generateInputJsonDeltaEvent
InputJsonDeltaEvent(index, partialJson) ==
  [type |-> "content_block_delta", index |-> index,
   delta |-> "input_json_delta", partial_json |-> partialJson]

\* generateBlockStopEvent
BlockStopEvent(index) == [type |-> "content_block_stop", index |-> index]

\* generateMessageDeltaEvent
MessageDeltaEvent(stopReason, inputTokens, outputTokens) ==
  [type |-> "message_delta", stop_reason |-> stopReason,
   input_tokens |-> inputTokens, output_tokens |-> outputTokens]

\* generateMessageStopEvent
MessageStopEvent == [type |-> "message_stop"]

RECURSIVE KeysInOrder(_)
\* Object.keys of a record with integer keys: ascending
KeysInOrder(S) ==
  IF S = {} THEN <<>>
  ELSE LET m == CHOOSE x \in S : \A y \in S : x <= y
       IN  <<m>> \o KeysInOrder(S \ {m})

\* only the text block is closed
DoneOutputTextOnly(st) ==
  (IF st.contentBlockStarted
   THEN <<BlockStopEvent(st.currentContentIndex)>> ELSE <<>>)
  \o <<MessageDeltaEvent(MapFinishReason(st.finishReason),
                         st.inputTokens, st.outputTokens),
       MessageStopEvent>>

\* lines 260-288: the events of [DONE]
DoneOutput(st) ==
  (IF st.contentBlockStarted
   THEN <<BlockStopEvent(st.currentContentIndex)>> ELSE <<>>)
  \o [i \in 1..Cardinality(st.toolCallsStarted) |->
        BlockStopEvent(KeysInOrder(st.toolCallsStarted)[i])]
  \o <<MessageDeltaEvent(MapFinishReason(st.finishReason),
                         st.inputTokens, st.outputTokens),
       MessageStopEvent>>

\* lines 306-320: id, model and usage of the chunk are kept
UpdateFromChunk(st, chunk) ==
  [st EXCEPT
     !.id = IF chunk.id # "" THEN chunk.id ELSE @,
     !.model = IF chunk.model # "" THEN chunk.model ELSE @,
     !.inputTokens = IF chunk.usage # NoUsage /\ chunk.usage[1] # 0
                     THEN chunk.usage[1] ELSE @,
     !.outputTokens = IF chunk.usage # NoUsage /\ chunk.usage[2] # 0
                      THEN chunk.usage[2] ELSE @]

\* the text block is opened again for every delta
TextStepAlwaysStarts(acc, content) ==
  IF content = <<>> THEN acc
  ELSE [state |-> [acc.state EXCEPT !.contentBlockStarted = TRUE],
        out |-> acc.out
                  \o <<TextBlockStartEvent(acc.state.currentContentIndex)>>
                  \o <<TextDeltaEvent(acc.state.currentContentIndex, content)>>]

\* the first delta of a text block is swallowed by the block start
TextStepDropsFirstDelta(acc, content) ==
  IF content = <<>> THEN acc
  ELSE [state |-> [acc.state EXCEPT !.contentBlockStarted = TRUE],
        out |-> acc.out
                  \o (IF acc.state.contentBlockStarted
                      THEN <<TextDeltaEvent(acc.state.currentContentIndex, content)>>
                      ELSE <<TextBlockStartEvent(acc.state.currentContentIndex)>>)]

\* lines 333-348: text content
TextStep(acc, content) ==
  IF content = <<>> THEN acc
  ELSE [state |-> [acc.state EXCEPT !.contentBlockStarted = TRUE],
        out |-> acc.out
                  \o (IF acc.state.contentBlockStarted THEN <<>>
                      ELSE <<TextBlockStartEvent(acc.state.currentContentIndex)>>)
                  \o <<TextDeltaEvent(acc.state.currentContentIndex, content)>>]

\* lines 353-386: one tool call of the delta
ToolCallStep(acc, toolCall) ==
  LET st == acc.state
      toolIndex == st.currentContentIndex + 1 + toolCall.index
      starts == toolCall.id # "" /\ toolCall.name # ""
      closesText == /\ starts
                    /\ st.contentBlockStarted
                    /\ toolIndex \notin st.toolCallsStarted
  IN  [state |-> [st EXCEPT
                    !.contentBlockStarted = IF closesText THEN FALSE ELSE @,
                    !.toolCallsStarted = IF starts THEN @ \cup {toolIndex} ELSE @],
       out |-> acc.out
                 \o (IF closesText
                     THEN <<BlockStopEvent(st.currentContentIndex)>> ELSE <<>>)
                 \o (IF starts
                     THEN <<ToolUseBlockStartEvent(toolIndex, toolCall.id, toolCall.name)>>
                     ELSE <<>>)
                 \o (IF toolCall.arguments # ""
                     THEN <<InputJsonDeltaEvent(toolIndex, toolCall.arguments)>>
                     ELSE <<>>)]

RECURSIVE ToolCallsStep(_, _)
\* lines 350-388: the tool calls of the delta, in order
ToolCallsStep(acc, toolCalls) ==
  IF toolCalls = <<>> THEN acc
  ELSE ToolCallsStep(ToolCallStep(acc, Head(toolCalls)), Tail(toolCalls))

\* lines 304-395: a parsed chunk
ChunkStep(st, chunk) ==
  LET st1 == UpdateFromChunk(st, chunk)
      started == [state |-> [st1 EXCEPT !.hasStarted = "true"],
                  out |-> IF st1.hasStarted = "true" THEN <<>>
                          ELSE <<MessageStartEvent(st1, chunk)>>]
  IN  IF ~chunk.hasChoice THEN started
      ELSE LET afterText == TextStep(started, chunk.content)
               afterTools == ToolCallsStep(afterText, chunk.tool_calls)
           IN  [state |-> [afterTools.state EXCEPT
                             !.finishReason = IF chunk.finish_reason # ""
                                              THEN chunk.finish_reason ELSE @],
                out |-> afterTools.out]

\* a line without the "data: " prefix is dropped
StreamTransformSkipsBare(state, line) ==
  LET st == InitStreamState(state)
  IN  CASE line.kind = "done" -> [state |-> st, out |-> DoneOutput(st)]
        [] line.kind = "garbage" -> [state |-> st, out |-> <<>>]
        [] line.kind = "json" /\ ~line.prefixed -> [state |-> st, out |-> <<>>]
        [] OTHER -> ChunkStep(st, line)

\* OpenAIToAnthropicMessagesStreamTransform: the new state and the events
\* returned for one line (no event: the function returns undefined)
StreamTransform(state, line) ==
  LET st == InitStreamState(state)
  IN  CASE line.kind = "done" -> [state |-> st, out |-> DoneOutput(st)]
        [] line.kind = "garbage" -> [state |-> st, out |-> <<>>]
        [] OTHER -> ChunkStep(st, line)

\* one line of the upstream is transformed and the result written downstream
Feed(line) ==
  /\ ~stEnded
  /\ Len(stIn) < MaxLines
  /\ LET r == StreamTransform(stState, line)
     IN  /\ stState' = r.state
         /\ stLast' = r.out
         /\ stOut' = stOut \o r.out
  /\ stIn' = Append(stIn, line)
  /\ UNCHANGED stEnded
  /\ UNCHANGED notST

\* the upstream closes the stream: the transform is not called again
EndOfStream ==
  /\ ~stEnded
  /\ stEnded' = TRUE
  /\ UNCHANGED <<stState, stIn, stOut, stLast>>
  /\ UNCHANGED notST

STNext ==
  \/ \E line \in StreamLines : Feed(line)
  \/ EndOfStream

(***************************************************************************)
(* Key validation: virtualKeyValidator                                     *)
(***************************************************************************)
\* largest budget_used of the account and of its keys, tenths
MaxBudgetUsed == 3

\* budget_limit of an account or key: NULL or an amount, tenths
BudgetLimits == {NoLimit, 2}

\* users.credits
CreditAmounts == {0, 5}

\* the value after "Bearer " of the authorization header; "" without header
Tokens == {"sk-regular", "sk-subscription", "sk-inactive", "sk-unknown"}

\* hashApiKey: the SHA-256 hex digest of the token
HashApiKey(token) ==
  CASE token = "sk-regular" -> "9f2c"
    [] token = "sk-subscription" -> "41ab"
    [] token = "sk-inactive" -> "d07e"
    [] OTHER -> "e3b0"

\* the rows of virtual_keys; their budget columns are vkKeyLimit, vkKeyUsed
StoredKeys ==
  { [api_key_hash |-> "9f2c", active |-> TRUE, type |-> "regular"],
    [api_key_hash |-> "41ab", active |-> TRUE, type |-> "subscription"],
    [api_key_hash |-> "d07e", active |-> FALSE, type |-> "regular"] }

\* no row: findVirtualKeyWithUser returns null
NoVirtualKey == [api_key_hash |-> "", active |-> FALSE, type |-> ""]

\* the lookup: WHERE vk.api_key_hash = $1 AND vk.active = true
FindVirtualKeyWithUser(token) ==
  LET rows == {k \in StoredKeys :
                 k.api_key_hash = HashApiKey(token) /\ k.active}
  IN  IF rows = {} THEN NoVirtualKey ELSE CHOOSE k \in rows : TRUE

\* the model of a request; "" when the body or query names none
ModelNames ==
  {"", "qwen/qwen-2.5-7b-instruct", "free/retired", "openai/gpt-4o",
   "openai/unknown"}

\* env.FREE_ALLOWED_MODELS, split at commas and trimmed
FREE_ALLOWED_MODELS == <<"qwen/qwen-2.5-7b-instruct", "free/retired">>

\* the models for which getModelDeploymentForModel finds a deployment
DeployedModels == {"qwen/qwen-2.5-7b-instruct", "openai/gpt-4o"}

\* every model passes the allow-list
IsModelAllowedAny(model) == model = model

\* isModelAllowed
IsModelAllowed(model) ==
  \E i \in DOMAIN FREE_ALLOWED_MODELS : FREE_ALLOWED_MODELS[i] = model

\* the requests: public path or not, Bearer token, model, a POST body that
\* is not JSON
Requests ==
  [public : BOOLEAN, bearer : {""} \cup Tokens, model : ModelNames,
   malformed : BOOLEAN]

NoRequest == [public |-> FALSE, bearer |-> "", model |-> "", malformed |-> FALSE]

NoResponse == [status |-> 0, message |-> ""]

NoContext == [isSet |-> FALSE]

\* createErrorResponse after a throw: no context, next() not called
ErrorOutcome(status, message) ==
  [response |-> [status |-> status, message |-> message],
   context |-> NoContext,
   forwarded |-> FALSE]

\* createVirtualKeyContext and c.set('virtualKeyContext', ...)
CreateVirtualKeyContext(model, key) ==
  IF model \notin DeployedModels
  THEN ErrorOutcome(404, "Model is not available")
  ELSE [response |-> NoResponse,
        context |-> [isSet |-> TRUE, virtualKeyWithUser |-> key,
                     originalModel |-> model, pricing |-> Pricing],
        forwarded |-> TRUE]

\* handlePublicEndpoint
HandlePublicEndpoint(model) == CreateVirtualKeyContext(model, NoVirtualKey)

\* the deployment is resolved before the key is looked up
HandleAuthenticatedUserDeploymentFirst(token, model, userLimit, userUsed, keyLimit, keyUsed) ==
  LET key == FindVirtualKeyWithUser(token)
  IN  IF model \notin DeployedModels
      THEN ErrorOutcome(404, "Model is not available")
      ELSE IF key = NoVirtualKey THEN ErrorOutcome(401, "Invalid API key")
      ELSE IF BudgetExceeded(userLimit, userUsed)
      THEN ErrorOutcome(401, "Account quota exceeded")
      ELSE IF BudgetExceeded(keyLimit, keyUsed)
      THEN ErrorOutcome(401, "API key quota exceeded")
      ELSE CreateVirtualKeyContext(model, key)

\* handleAuthenticatedUser
HandleAuthenticatedUser(token, model, userLimit, userUsed, keyLimit, keyUsed) ==
  LET key == FindVirtualKeyWithUser(token)
  IN  IF key = NoVirtualKey THEN ErrorOutcome(401, "Invalid API key")
      ELSE IF BudgetExceeded(userLimit, userUsed)
      THEN ErrorOutcome(401, "Account quota exceeded")
      ELSE IF BudgetExceeded(keyLimit, keyUsed)
      THEN ErrorOutcome(401, "API key quota exceeded")
      ELSE CreateVirtualKeyContext(model, key)

\* handleAnonymousUser
HandleAnonymousUser(model) ==
  IF ~IsModelAllowed(model)
  THEN ErrorOutcome(403, "Add credits to access this model")
  ELSE CreateVirtualKeyContext(model, NoVirtualKey)

\* virtualKeyValidator: one request
Validate(req) ==
  /\ LET outcome ==
           IF req.malformed
           THEN ErrorOutcome(500, "Service temporarily unavailable")
           ELSE IF req.model = ""
           THEN ErrorOutcome(400, "Model parameter is required")
           ELSE IF req.public THEN HandlePublicEndpoint(req.model)
           ELSE IF req.bearer # ""
           THEN HandleAuthenticatedUser(req.bearer, req.model, vkUserLimit,
                                        vkUserUsed, vkKeyLimit, vkKeyUsed)
           ELSE HandleAnonymousUser(req.model)
     IN  /\ vkResponse' = outcome.response
         /\ vkContext' = outcome.context
         /\ vkForwarded' = outcome.forwarded
  /\ vkRequest' = req
  /\ UNCHANGED <<vkUserLimit, vkUserUsed, vkCredits, vkKeyLimit, vkKeyUsed>>
  /\ UNCHANGED notVK

VKNext == \E req \in Requests : Validate(req)

(***************************************************************************)
(* Rate limiter middleware: rateLimiter and its 429 response               *)
(***************************************************************************)
\* most calls of the account at one instant
MaxCallsPerInstant == 11

\* most requests in which a Redis command throws
MaxRedisErrors == 1

\* the instants, in seconds, at which requests arrive
ScenarioTimes == <<0, 10, 61>>

\* user.rate_limit_rpm NULL
NullRpm == 0

\* env.DEFAULT_RATE_LIMIT_RPM
DEFAULT_RATE_LIMIT_RPM == 3

ENTERPRISE_TIER == "ENTERPRISE"

\* rpmLimit = user.rate_limit_rpm ?? env.DEFAULT_RATE_LIMIT_RPM
RpmLimit(rpm) == IF rpm = NullRpm THEN DEFAULT_RATE_LIMIT_RPM ELSE rpm

\* the reset is put at the expiry of the counter
ResetAtKeyExpiry(currentWindow) == (currentWindow + 2) * WINDOW_SIZE_SECONDS

\* resetAt = (currentWindow + 1) * WINDOW_SIZE_SECONDS
ResetAt(currentWindow) == (currentWindow + 1) * WINDOW_SIZE_SECONDS

\* checkAndIncrementRateLimit run without interleaving at time t; decrThrows:
\* the DECR of the rollback throws
CheckAndIncrementRateLimit(store, limit, t, decrThrows) ==
  LET w == CurrentWindow(t)
      prevCount == RedisGet(store, w - 1, t)
      store1 == RedisIncrExpire(store, w, t, WINDOW_SIZE_SECONDS * 2)
      currCount == store1[w].count
      estimatedCount == EstimatedCount(prevCount, currCount, t)
      allowed == Allowed(estimatedCount, limit)
  IN  [store |-> IF allowed \/ decrThrows THEN store1
                 ELSE RedisDecr(store1, w, t),
       threw |-> ~allowed /\ decrThrows,
       allowed |-> allowed,
       remaining |-> IF allowed THEN Max(0, limit - estimatedCount) ELSE 0,
       resetAt |-> ResetAt(w),
       limit |-> limit]

\* createRateLimitResponse: Retry-After
RetryAfter(resetAt, t) == Max(1, resetAt - t)

NoHeaders == [limit |-> -1, remaining |-> -1, reset |-> -1]

\* the outcome of a request: next() called or a response, the X-RateLimit
\* headers, Retry-After, and the Redis command that threw
Outcome(forwarded, status, headers, retryAfter, failure) ==
  [forwarded |-> forwarded, status |-> status, headers |-> headers,
   retryAfter |-> retryAfter, failure |-> failure]

\* the request is refused when Redis throws
OnRedisErrorFailClosed(failure) == Outcome(FALSE, 503, NoHeaders, 0, failure)

\* lines 64-69: the catch logs a warning, then next()
OnRedisError(failure) == Outcome(TRUE, 0, NoHeaders, 0, failure)

RmNow == ScenarioTimes[rmClock]

\* the wall clock moves to the next instant
RmAdvance ==
  /\ rmClock < Len(ScenarioTimes)
  /\ rmClock' = rmClock + 1
  /\ UNCHANGED <<rmRpm, rmTier, rmStore, rmCalls, rmAdmitted, rmRetryAfter,
                 rmErrors, rmLast>>
  /\ UNCHANGED notRM

\* lines 36-48: no authenticated account, or an enterprise account: next()
RmSkip(authenticated) ==
  /\ ~authenticated \/ rmTier = ENTERPRISE_TIER
  /\ rmLast' = Outcome(TRUE, 0, NoHeaders, 0, "none")
  /\ UNCHANGED <<rmClock, rmRpm, rmTier, rmStore, rmCalls, rmAdmitted,
                 rmRetryAfter, rmErrors>>
  /\ UNCHANGED notRM

\* lines 50-69, Redis unreachable: getRedisClient or the MULTI throws
RmRedisDown ==
  /\ rmTier # ENTERPRISE_TIER
  /\ rmErrors < MaxRedisErrors
  /\ rmLast' = OnRedisError("multi")
  /\ rmErrors' = rmErrors + 1
  /\ UNCHANGED <<rmClock, rmRpm, rmTier, rmStore, rmCalls, rmAdmitted,
                 rmRetryAfter>>
  /\ UNCHANGED notRM

\* lines 50-69: the limit is checked; decrThrows: Redis is lost before the
\* rollback
RmLimited(decrThrows) ==
  /\ rmTier # ENTERPRISE_TIER
  /\ rmCalls[rmClock] < MaxCallsPerInstant
  /\ decrThrows => rmErrors < MaxRedisErrors
  /\ LET result == CheckAndIncrementRateLimit(rmStore, RpmLimit(rmRpm),
                                              RmNow, decrThrows)
         headers == [limit |-> result.limit, remaining |-> result.remaining,
                     reset |-> result.resetAt]
     IN  /\ rmStore' = result.store
         /\ IF result.threw
            THEN /\ rmLast' = OnRedisError("decr")
                 /\ rmErrors' = rmErrors + 1
                 /\ UNCHANGED <<rmCalls, rmAdmitted, rmRetryAfter>>
            ELSE /\ rmCalls' = [rmCalls EXCEPT ![rmClock] = @ + 1]
                 /\ UNCHANGED rmErrors
                 /\ IF result.allowed
                    THEN /\ rmLast' = Outcome(TRUE, 0, headers, 0, "none")
                         /\ rmAdmitted' = [rmAdmitted EXCEPT ![rmClock] = @ + 1]
                         /\ UNCHANGED rmRetryAfter
                    ELSE /\ rmLast' = Outcome(FALSE, 429,
                                              [headers EXCEPT !.remaining = 0],
                                              RetryAfter(result.resetAt, RmNow),
                                              "none")
                         /\ rmRetryAfter' =
                              [rmRetryAfter EXCEPT ![rmClock] =
                                 @ \cup {RetryAfter(result.resetAt, RmNow)}]
                         /\ UNCHANGED rmAdmitted
  /\ UNCHANGED <<rmClock, rmRpm, rmTier>>
  /\ UNCHANGED notRM

RMNext ==
  \/ RmAdvance
  \/ \E authenticated \in BOOLEAN : RmSkip(authenticated)
  \/ RmRedisDown
  \/ \E decrThrows \in BOOLEAN : RmLimited(decrThrows)

(***************************************************************************)
(* Spend logger: the usage-extracting transform of a streamed response     *)
(***************************************************************************)
\* number of chunks of one response body
MaxChunks == 3

\* one line of a chunk: its first six characters, what follows them, and the
\* usage member of the JSON object when what follows is one; of a data line
\* cut in two by a chunk boundary, "json-head" is the part up to the cut and
\* "json-tail" the part after it, each carrying the usage of the whole line
Line(prefix, body, usage) == [prefix |-> prefix, body |-> body, usage |-> usage]

\* the chunks of a response body; a chunk is split into lines at "\n"
BodyChunks ==
  { <<Line("data: ", "json", <<1, 1>>)>>,
    <<Line("data: ", "json", <<5, 7>>)>>,
    <<Line("data: ", "json", NoUsage)>>,
    <<Line("data: ", "[DONE]", NoUsage)>>,
    <<Line("data: ", "garbage", NoUsage)>>,
    <<Line("{\"usa", "json", <<9, 9>>)>>,
    <<Line("data: ", "json-head", <<5, 7>>)>>,
    <<Line("ens\":7", "json-tail", <<5, 7>>)>>,
    <<Line("event:", "text", NoUsage), Line("data: ", "json", <<5, 7>>),
      Line("", "", NoUsage)>>,
    <<Line("data: ", "json", <<1, 1>>), Line("data: ", "json", <<5, 7>>)>> }

\* extractUsageFromStreamChunk
ExtractUsageFromStreamChunk(line) ==
  IF line.prefix # "data: " THEN NoUsage
  ELSE IF line.body = "[DONE]" THEN NoUsage
  ELSE IF line.body # "json" THEN NoUsage
  ELSE line.usage

RECURSIVE UsageAfterLinesFirstWins(_, _)
\* only the first usage of the stream is kept
UsageAfterLinesFirstWins(streamUsage, lines) ==
  IF lines = <<>> \/ streamUsage # NoUsage THEN streamUsage
  ELSE UsageAfterLinesFirstWins(ExtractUsageFromStreamChunk(Head(lines)),
                                Tail(lines))

RECURSIVE UsageAfterLines(_, _)
\* lines 328-335: every line with a usage replaces streamUsage
UsageAfterLines(streamUsage, lines) ==
  IF lines = <<>> THEN streamUsage
  ELSE LET usage == ExtractUsageFromStreamChunk(Head(lines))
       IN  UsageAfterLines(IF usage # NoUsage THEN usage ELSE streamUsage,
                           Tail(lines))

\* a chunk with a line that is no JSON data line is held back
EnqueuedChunksParsedOnly(chunk) ==
  IF \A i \in DOMAIN chunk : chunk[i].prefix = "data: " /\ chunk[i].body = "json"
  THEN <<chunk>> ELSE <<>>

\* line 321: controller.enqueue(chunk)
EnqueuedChunks(chunk) == <<chunk>>

NoRecord == [produced |-> FALSE]

\* the argument of processSpendData built by flush(), and its queueData.usage
SpendRecord(usage) ==
  [produced |-> TRUE, rawUsage |-> usage,
   usage |-> [input_tokens |-> usage[1], output_tokens |-> usage[2]]]

\* the record is enqueued whether or not the request has a virtual key
ProcessSpendDataAnyone(account) == "pending"

\* processSpendData, lines 240-248 and 280-281: without a virtual key the
\* record is dropped with a warning, otherwise its enqueue is started
ProcessSpendData(account) == IF account THEN "pending" ELSE "none"

\* transform(chunk, controller)
SlTransform(chunk) ==
  /\ slPhase = "open"
  /\ Len(slIn) < MaxChunks
  /\ slIn' = Append(slIn, chunk)
  /\ slOut' = slOut \o EnqueuedChunks(chunk)
  /\ slUsage' = UsageAfterLines(slUsage, chunk)
  /\ UNCHANGED <<slAccount, slPhase, slRecord, slEnqueue, slQueue>>
  /\ UNCHANGED notSL

\* flush(): processSpendData is called and not awaited; it returns at once
\* without a virtual key, otherwise it runs up to the await of the enqueue
SlFlush ==
  /\ slPhase = "open"
  /\ slPhase' = "flushed"
  /\ IF slUsage # NoUsage
     THEN /\ slRecord' = SpendRecord(slUsage)
          /\ slEnqueue' = ProcessSpendData(slAccount)
     ELSE UNCHANGED <<slRecord, slEnqueue>>
  /\ UNCHANGED <<slAccount, slIn, slOut, slUsage, slQueue>>
  /\ UNCHANGED notSL

\* enqueueSpendData: the LPUSH completes, or Redis throws and the error is
\* logged
SlEnqueueSettles(ok) ==
  /\ slEnqueue = "pending"
  /\ IF ok
     THEN /\ slQueue' = RedisLPush(slQueue, slRecord)
          /\ slEnqueue' = "done"
     ELSE /\ slEnqueue' = "failed"
          /\ UNCHANGED slQueue
  /\ UNCHANGED <<slAccount, slIn, slOut, slUsage, slPhase, slRecord>>
  /\ UNCHANGED notSL

\* the readable side closes: the caller has read the whole body
SlClose ==
  /\ slPhase = "flushed"
  /\ slPhase' = "closed"
  /\ UNCHANGED <<slAccount, slIn, slOut, slUsage, slRecord, slEnqueue, slQueue>>
  /\ UNCHANGED notSL

SLNext ==
  \/ \E chunk \in BodyChunks : SlTransform(chunk)
  \/ SlFlush
  \/ \E ok \in BOOLEAN : SlEnqueueSettles(ok)
  \/ SlClose

(***************************************************************************)
(* Spend queue worker: the aggregation of one batch                        *)
(***************************************************************************)
\* number of records of one batch
MaxBatchLen == 2

\* usage.input_tokens and usage.output_tokens of a record
TokenCounts == {0, 1}

\* pricing.inputCostPerToken and pricing.outputCostPerToken of a record, tenths
TokenPrices == {0, 2}

\* the records a batch is made of; a key belongs to the account of its number
BatchRecords ==
  {[userId |-> k, virtualKeyId |-> k,
    input_tokens |-> it, output_tokens |-> ot,
    pricing |-> [inputCostPerToken |-> ip, outputCostPerToken |-> op]] :
      k \in Keys, it \in TokenCounts, ot \in TokenCounts,
      ip \in TokenPrices, op \in TokenPrices}

\* lines 138-147: the owners that get an entry in userSpends or keySpends,
\* field being userId or virtualKeyId
SpendOwners(batch, field) ==
  {batch[i][field] : i \in {j \in DOMAIN batch : RecordCost(batch[j]) # 0}}

\* lines 100-113: a popped value is decoded and joins spendDataList
AgDecode(r) ==
  /\ ~agSettled
  /\ Len(agBatch) < MaxBatchLen
  /\ agBatch' = Append(agBatch,
                       [id |-> Len(agBatch) + 1, userId |-> r.userId,
                        virtualKeyId |-> r.virtualKeyId,
                        input_tokens |-> r.input_tokens,
                        output_tokens |-> r.output_tokens,
                        pricing |-> r.pricing])
  /\ UNCHANGED <<agUserUsed, agKeyUsed, agUsers, agKeys, agRows, agSettled>>
  /\ UNCHANGED notAG

\* lines 115-187: the sums of the batch, then the three writes
AgSettle ==
  /\ ~agSettled
  /\ agBatch # <<>>
  /\ agSettled' = TRUE
  /\ agUsers' = SpendOwners(agBatch, "userId")
  /\ agKeys' = SpendOwners(agBatch, "virtualKeyId")
  /\ agRows' = ClickhouseLogs(agBatch)
  /\ agUserUsed' = UpdateUserBudgetUsed(agUserUsed,
                     [u \in Users |-> SumCosts(agBatch, "userId", u)])
  /\ agKeyUsed' = UpdateKeyBudgetUsed(agKeyUsed,
                     [k \in Keys |-> SumCosts(agBatch, "virtualKeyId", k)])
  /\ UNCHANGED agBatch
  /\ UNCHANGED notAG

AGNext ==
  \/ \E r \in BatchRecords : AgDecode(r)
  \/ AgSettle

(***************************************************************************)
(* Model service: the deployment cache of getModelDeploymentForModel       *)
(***************************************************************************)
\* seconds between two readings of the cache clock
CacheClockStep == 100

\* last reading of the cache clock
MaxCacheClock == 400

\* most resolves of one model
MaxResolves == 3

NEGATIVE_TTL == 300

POSITIVE_TTL == 86400

\* the models asked for: one with an active deployment, one without
ResolvedModels == {"openai/gpt-4o", "openai/unknown"}

\* the JavaScript value null, and a deployment row
JsNull == [kind |-> "null", model |-> ""]

DeploymentOf(model) == [kind |-> "deployment", model |-> model]

\* getModelDeployment: the query of the persistent store
GetModelDeployment(model) ==
  IF model \in DeployedModels THEN DeploymentOf(model) ELSE JsNull

\* JSON.stringify and JSON.parse of these values
JsonStringify(value) ==
  IF value.kind = "null" THEN "null" ELSE "{\"model\":\"" \o value.model \o "\"}"

JsonParse(text, model) ==
  IF text = "null" THEN JsNull ELSE DeploymentOf(model)

\* a JavaScript string is truthy unless empty; null is falsy, an object truthy
TruthyString(text) == text # ""

Truthy(value) == value.kind # "null"

NoEntry == [live |-> FALSE, json |-> "", expireAt |-> 0]

\* getCache: GET key, then data ? JSON.parse(data) : null
GetCache(cache, model, t) ==
  LET data == IF cache[model].live /\ t < cache[model].expireAt
              THEN cache[model].json ELSE ""
  IN  IF TruthyString(data) THEN JsonParse(data, model) ELSE JsNull

\* setCache: SETEX key ttl JSON.stringify(data)
SetCache(cache, model, value, ttl, t) ==
  [cache EXCEPT ![model] =
     [live |-> TRUE, json |-> JsonStringify(value), expireAt |-> t + ttl]]

\* the cache clock advances
McTick ==
  /\ mcClock + CacheClockStep <= MaxCacheClock
  /\ mcClock' = mcClock + CacheClockStep
  /\ UNCHANGED <<mcCache, mcQueries, mcHits, mcLast>>
  /\ UNCHANGED notMC

\* getModelDeploymentForModel
McResolve(model) ==
  /\ mcQueries[model] + mcHits[model] < MaxResolves
  /\ LET cached == GetCache(mcCache, model, mcClock)
     IN  IF Truthy(cached)
         THEN /\ mcLast' = [model |-> model, result |-> cached, queried |-> FALSE]
              /\ mcHits' = [mcHits EXCEPT ![model] = @ + 1]
              /\ UNCHANGED <<mcCache, mcQueries>>
         ELSE LET deployment == GetModelDeployment(model)
              IN  /\ mcQueries' = [mcQueries EXCEPT ![model] = @ + 1]
                  /\ mcLast' = [model |-> model, result |-> deployment,
                                queried |-> TRUE]
                  /\ mcCache' = SetCache(mcCache, model, deployment,
                                         IF Truthy(deployment) THEN POSITIVE_TTL
                                         ELSE NEGATIVE_TTL,
                                         mcClock)
                  /\ UNCHANGED mcHits
  /\ UNCHANGED mcClock
  /\ UNCHANGED notMC

MCNext ==
  \/ McTick
  \/ \E model \in ResolvedModels : McResolve(model)

(***************************************************************************)
(* Server start and graceful shutdown (start-server.ts)                    *)
(***************************************************************************)
\* most records enqueued in one run of the server
MaxQueued == 4

Signals == {"SIGTERM", "SIGINT"}

SeqToSet(s) == {s[i] : i \in 1..Len(s)}

\* a request enqueues its usage record while the Redis client is open
SdEnqueue ==
  /\ sdPc # "exited"
  /\ sdRedisOpen
  /\ sdNextId <= MaxQueued
  /\ sdQueue' = RedisLPush(sdQueue, sdNextId)
  /\ sdNextId' = sdNextId + 1
  /\ UNCHANGED <<sdPc, sdSignal, sdTimer, sdPoolOpen, sdRedisOpen, sdSettled,
                 sdAtSignal>>
  /\ UNCHANGED notSD

\* the interval set by startSpendProcessor fires: one processSpendQueue
SdTimerTick ==
  /\ sdTimer
  /\ sdPoolOpen /\ sdRedisOpen
  /\ sdQueue # <<>>
  /\ LET n == Min(MAX_BATCH, Len(sdQueue))
     IN  /\ sdSettled' = sdSettled \cup SeqToSet(RedisRPopValues(sdQueue, n))
         /\ sdQueue' = RedisRPopRest(sdQueue, n)
  /\ UNCHANGED <<sdPc, sdSignal, sdTimer, sdPoolOpen, sdRedisOpen, sdNextId,
                 sdAtSignal>>
  /\ UNCHANGED notSD

\* stopSpendProcessor: clearInterval
StopSpendProcessor(timer) == FALSE

\* gracefulShutdown up to its first await: the timer is stopped
SdSignal(sig) ==
  /\ sdPc = "serving"
  /\ sdSignal' = sig
  /\ sdAtSignal' = SeqToSet(sdQueue)
  /\ sdTimer' = StopSpendProcessor(sdTimer)
  /\ sdPc' = "stopped"
  /\ UNCHANGED <<sdPoolOpen, sdRedisOpen, sdQueue, sdNextId, sdSettled>>
  /\ UNCHANGED notSD

\* await Promise.all([closePostgresPool(), closeRedisClient()])
SdClose ==
  /\ sdPc = "stopped"
  /\ sdPoolOpen' = FALSE
  /\ sdRedisOpen' = FALSE
  /\ sdPc' = "closed"
  /\ UNCHANGED <<sdSignal, sdTimer, sdQueue, sdNextId, sdSettled, sdAtSignal>>
  /\ UNCHANGED notSD

\* process.exit(0)
SdExit ==
  /\ sdPc = "closed"
  /\ sdPc' = "exited"
  /\ UNCHANGED <<sdSignal, sdTimer, sdPoolOpen, sdRedisOpen, sdQueue, sdNextId,
                 sdSettled, sdAtSignal>>
  /\ UNCHANGED notSD

SDNext ==
  \/ SdEnqueue
  \/ SdTimerTick
  \/ \E sig \in Signals : SdSignal(sig)
  \/ SdClose
  \/ SdExit

(***************************************************************************)
(* OpenAI chat completion -> Anthropic message (unary response transform)  *)
(***************************************************************************)
\* most tool calls in one message
MaxToolCalls == 2

\* JavaScript values of a field that is a string, null or missing
JsStr(s) == [type |-> "string", value |-> s]

JsNullField == [type |-> "null", value |-> ""]

JsUndefinedField == [type |-> "undefined", value |-> ""]

\* a string is truthy unless empty; null and undefined are falsy
TruthyField(field) == field.type = "string" /\ field.value # ""

\* a number field that is missing
UndefinedNumber == -1

FinishReasons ==
  { JsStr(s) : s \in {"stop", "length", "tool_calls", "function_call",
                      "content_filter", "eos", ""} }
    \cup {JsNullField, JsUndefinedField}

\* mapFinishReason of the unary transform, without the function_call case
UnaryMapFinishReasonNoFunctionCall(finishReason) ==
  IF finishReason.type # "string" THEN "end_turn"
  ELSE CASE finishReason.value = "stop" -> "end_turn"
         [] finishReason.value = "length" -> "max_tokens"
         [] finishReason.value = "tool_calls" -> "tool_use"
         [] OTHER -> "end_turn"

\* mapFinishReason of the unary transform: a switch on strict equality
UnaryMapFinishReason(finishReason) ==
  IF finishReason.type # "string" THEN "end_turn"
  ELSE CASE finishReason.value = "stop" -> "end_turn"
         [] finishReason.value = "length" -> "max_tokens"
         [] finishReason.value \in {"tool_calls", "function_call"} -> "tool_use"
         [] finishReason.value = "content_filter" -> "end_turn"
         [] OTHER -> "end_turn"

\* the argument strings of the tool calls, and what JSON.parse makes of
\* them; an object is the set of its <<key, value>> pairs
ArgumentStrings == {"{\"city\":\"NYC\"}", "{}", "{\"q\":"}

JsonParseThrows(str) == str = "{\"q\":"

JsonParseObject(str) ==
  CASE str = "{\"city\":\"NYC\"}" -> {<<"city", "NYC">>}
    [] str = "{}" -> {}

EmptyObject == {}

\* safeParseJSON
SafeParseJSON(str) ==
  IF JsonParseThrows(str) THEN EmptyObject ELSE JsonParseObject(str)

OpenAIToolCalls ==
  { [id |-> "c1", name |-> "get_weather", arguments |-> "{\"city\":\"NYC\"}"],
    [id |-> "c2", name |-> "get_time", arguments |-> "{}"],
    [id |-> "c3", name |-> "search", arguments |-> "{\"q\":"] }

ToolCallLists ==
  UNION { [1..n -> OpenAIToolCalls] : n \in 0..MaxToolCalls }

TextBlock(text) ==
  [type |-> "text", text |-> text, id |-> "", name |-> "", input |-> EmptyObject]

ToolUseBlock(id, name, input) ==
  [type |-> "tool_use", text |-> "", id |-> id, name |-> name, input |-> input]

\* transformToolCalls, in the reverse order
TransformToolCallsReversed(toolCalls) ==
  [i \in 1..Len(toolCalls) |->
     LET toolCall == toolCalls[Len(toolCalls) + 1 - i]
     IN  ToolUseBlock(toolCall.id, toolCall.name,
                      SafeParseJSON(toolCall.arguments))]

\* transformToolCalls
TransformToolCalls(toolCalls) ==
  [i \in 1..Len(toolCalls) |->
     ToolUseBlock(toolCalls[i].id, toolCalls[i].name,
                  SafeParseJSON(toolCalls[i].arguments))]

\* usage of a response: missing, or the counts with the optional cache counts
NoUnaryUsage ==
  [present |-> FALSE, prompt_tokens |-> UndefinedNumber,
   completion_tokens |-> UndefinedNumber,
   cache_read_input_tokens |-> UndefinedNumber,
   cache_creation_input_tokens |-> UndefinedNumber]

UnaryUsages ==
  {NoUnaryUsage} \cup
  [present : {TRUE},
   prompt_tokens : {0, 7},
   completion_tokens : {0, 9},
   cache_read_input_tokens : {UndefinedNumber, 0, 3},
   cache_creation_input_tokens : {UndefinedNumber, 5}]

\* x || 0 on a number field
OrZero(n) == IF n = UndefinedNumber THEN 0 ELSE n

\* lines 357-370, with the two counts exchanged
BuildUsageSwapped(usage) ==
  [input_tokens |-> OrZero(usage.completion_tokens),
   output_tokens |-> OrZero(usage.prompt_tokens),
   cache_read_input_tokens |-> usage.cache_read_input_tokens,
   cache_creation_input_tokens |-> usage.cache_creation_input_tokens]

\* lines 357-370: the usage object; a cache count is a key of the result only
\* when it is not undefined in the response
BuildUsage(usage) ==
  [input_tokens |-> OrZero(usage.prompt_tokens),
   output_tokens |-> OrZero(usage.completion_tokens),
   cache_read_input_tokens |-> usage.cache_read_input_tokens,
   cache_creation_input_tokens |-> usage.cache_creation_input_tokens]

Choice(content, toolCalls, finishReason) ==
  [content |-> content, tool_calls |-> toolCalls, finish_reason |-> finishReason]

\* the bodies an upstream returns; an empty tool_calls stands for a missing
\* one as well
ChoiceBodies ==
  { [id |-> id, model |-> "gpt-x", errorKey |-> FALSE, choicesKey |-> TRUE,
     choices |-> <<Choice(content, toolCalls, finishReason)>>, usage |-> usage] :
      id \in {"", "chatcmpl-1"},
      content \in {JsStr("Hello"), JsStr(""), JsNullField},
      toolCalls \in ToolCallLists,
      finishReason \in FinishReasons,
      usage \in UnaryUsages }

TwoChoiceBodies ==
  { [id |-> "chatcmpl-1", model |-> "gpt-x", errorKey |-> FALSE,
     choicesKey |-> TRUE,
     choices |-> <<Choice(content, <<>>, finishReason),
                   Choice(JsStr("Other"), <<>>, JsStr("length"))>>,
     usage |-> NoUnaryUsage] :
      content \in {JsStr("Hello"), JsNullField},
      finishReason \in FinishReasons }

NoChoiceBodies ==
  { [id |-> "", model |-> "", errorKey |-> errorKey, choicesKey |-> choicesKey,
     choices |-> <<>>, usage |-> NoUnaryUsage] :
      errorKey \in BOOLEAN, choicesKey \in BOOLEAN }

\* the body of no response
NoResponseBody ==
  [id |-> "", model |-> "", errorKey |-> FALSE, choicesKey |-> FALSE,
   choices |-> <<>>, usage |-> NoUnaryUsage]

ResponseBodies == ChoiceBodies \cup TwoChoiceBodies \cup NoChoiceBodies

ResponseStatuses == {199, 200, 299, 300}

NoResult ==
  [kind |-> "none", message |-> "", id |-> "", model |-> "", content |-> <<>>,
   stop_reason |-> "", usage |-> BuildUsage(NoUnaryUsage)]

ErrorResult(message) == [NoResult EXCEPT !.kind = "error", !.message = message]

\* lines 299-355: the content array
BuildContent(message) ==
  LET text == IF TruthyField(message.content)
              THEN <<TextBlock(message.content.value)>> ELSE <<>>
      tools == IF Len(message.tool_calls) > 0
               THEN TransformToolCalls(message.tool_calls) ELSE <<>>
      content == text \o tools
  IN  IF Len(content) = 0 THEN <<TextBlock("")>> ELSE content

\* OpenAIToAnthropicMessagesResponseTransform
ResponseTransform(response, status) ==
  IF status < 200 \/ status >= 300
  THEN IF response.errorKey THEN ErrorResult("upstream error")
       ELSE ErrorResult("Unknown error occurred")
  ELSE IF ~response.choicesKey \/ Len(response.choices) = 0
  THEN ErrorResult("Invalid response format: missing choices")
  ELSE LET choice == response.choices[1]
       IN  [kind |-> "message",
            message |-> "",
            id |-> IF response.id # "" THEN response.id ELSE "msg_now",
            model |-> response.model,
            content |-> BuildContent(choice),
            stop_reason |-> UnaryMapFinishReason(choice.finish_reason),
            usage |-> BuildUsage(response.usage)]

\* the gateway transforms the upstream response
UtTransform ==
  /\ utResult = NoResult
  /\ utResult' = ResponseTransform(utResponse, utStatus)
  /\ UNCHANGED <<utStatus, utResponse>>
  /\ UNCHANGED notUT

UTNext == UtTransform

(***************************************************************************)
(* checkAndIncrementRateLimit: one call on a given pair of counters        *)
(***************************************************************************)
\* largest limit per minute of a caller
MaxRcLimit == 6

\* the seconds of the window after the first
RcInstants == WINDOW_SIZE_SECONDS..(2 * WINDOW_SIZE_SECONDS - 1)

\* the counters the limiter can have left behind at time t: the previous
\* window admitted at most limit calls, and the last call counted in the
\* current window was admitted at some second of it not after t
RcCounters(limit, prev, curr, t) ==
  /\ prev \in 0..limit
  /\ curr \in 0..limit
  /\ curr > 0 =>
       \E t0 \in WINDOW_SIZE_SECONDS..t :
         Allowed(EstimatedCount(prev, curr, t0), limit)

\* the keys holding these counters; a window without calls has no key
RcStoreOf(prev, curr, t) ==
  [w \in Windows |->
     IF w = CurrentWindow(t) - 1 /\ prev > 0
     THEN [live |-> TRUE, count |-> prev, expireAt |-> 2 * WINDOW_SIZE_SECONDS]
     ELSE IF w = CurrentWindow(t) /\ curr > 0
     THEN [live |-> TRUE, count |-> curr, expireAt |-> 3 * WINDOW_SIZE_SECONDS]
     ELSE NoKey]

NoRcResult ==
  [called |-> FALSE, allowed |-> FALSE, remaining |-> 0, resetAt |-> 0,
   limit |-> 0]

\* one call of checkAndIncrementRateLimit
RcCall ==
  /\ ~rcResult.called
  /\ LET r == CheckAndIncrementRateLimit(rcStore, rcLimit, rcNow, FALSE)
     IN  /\ rcStore' = r.store
         /\ rcResult' = [called |-> TRUE, allowed |-> r.allowed,
                         remaining |-> r.remaining, resetAt |-> r.resetAt,
                         limit |-> r.limit]
  /\ UNCHANGED <<rcLimit, rcNow, rcPrev, rcCurr>>
  /\ UNCHANGED notRC

RCNext == RcCall

(***************************************************************************)
(* One worker draining spend:queue while requests enqueue                  *)
(***************************************************************************)
\* most records enqueued after the start
MaxEnqueued == 2

\* most ticks that take the lease
MaxTicks == 2

\* the queue lengths at the start, around the batch size
InitialLengths == {0, 1, 2, MAX_BATCH - 1, MAX_BATCH, MAX_BATCH + 1}

\* a queue of n records pushed in the order 1..n
QueueOf(n) == [i \in 1..n |-> n + 1 - i]

\* enqueueSpendData: LPUSH
DqEnqueue ==
  /\ dqEnqueued < MaxEnqueued
  /\ dqQueue' = RedisLPush(dqQueue, dqNextId)
  /\ dqNextId' = dqNextId + 1
  /\ dqEnqueued' = dqEnqueued + 1
  /\ dqDuring' = IF dqPc \in {"pop", "settle"}
                 THEN dqDuring \cup {dqNextId} ELSE dqDuring
  /\ UNCHANGED <<dqLock, dqPc, dqLen, dqAtLen, dqBatch, dqTicks>>
  /\ UNCHANGED notDQ

\* lines 68-77: SET NX takes the lease
DqAcquire ==
  /\ dqPc = "idle"
  /\ ~dqLock
  /\ dqTicks < MaxTicks
  /\ dqLock' = TRUE
  /\ dqPc' = "len"
  /\ dqTicks' = dqTicks + 1
  /\ dqDuring' = {}
  /\ dqBatch' = <<>>
  /\ dqLen' = 0
  /\ dqAtLen' = <<>>
  /\ UNCHANGED <<dqQueue, dqNextId, dqEnqueued>>
  /\ UNCHANGED notDQ

\* lines 80-85: LLEN; an empty queue ends the tick
DqLen ==
  /\ dqPc = "len"
  /\ dqLen' = Len(dqQueue)
  /\ dqAtLen' = dqQueue
  /\ dqPc' = IF Len(dqQueue) = 0 THEN "settle" ELSE "pop"
  /\ UNCHANGED <<dqQueue, dqNextId, dqEnqueued, dqLock, dqDuring, dqBatch,
                 dqTicks>>
  /\ UNCHANGED notDQ

\* lines 87-98: min(500, queueLength) RPOPs in one MULTI
DqPop ==
  /\ dqPc = "pop"
  /\ LET batchSize == Min(MAX_BATCH, dqLen)
     IN  /\ dqBatch' = RedisRPopValues(dqQueue, batchSize)
         /\ dqQueue' = RedisRPopRest(dqQueue, batchSize)
  /\ dqPc' = "settle"
  /\ UNCHANGED <<dqNextId, dqEnqueued, dqLock, dqLen, dqAtLen, dqDuring, dqTicks>>
  /\ UNCHANGED notDQ

\* lines 100-193: the batch is settled and the lease deleted
DqRelease ==
  /\ dqPc = "settle"
  /\ dqLock' = (RedisDel(1) # 0)
  /\ dqPc' = "idle"
  /\ UNCHANGED <<dqQueue, dqNextId, dqEnqueued, dqLen, dqAtLen, dqDuring,
                 dqBatch, dqTicks>>
  /\ UNCHANGED notDQ

DQNext ==
  \/ DqEnqueue
  \/ DqAcquire
  \/ DqLen
  \/ DqPop
  \/ DqRelease

(***************************************************************************)
(* Anthropic messages request -> OpenAI messages (transformMessages)       *)
(***************************************************************************)
\* most messages of a request
MaxMessages == 2

\* most content blocks of a message
MaxBlocks == 2

\* params.system: missing, a string, or an array of blocks (texts; the empty
\* text stands for a block that is not of type text)
SystemValues ==
  { [kind |-> "undefined", text |-> "", blocks |-> <<>>],
    [kind |-> "string", text |-> "", blocks |-> <<>>],
    [kind |-> "string", text |-> "Be brief", blocks |-> <<>>],
    [kind |-> "array", text |-> "", blocks |-> <<>>],
    [kind |-> "array", text |-> "", blocks |-> <<"Be brief", "Be kind">>] }

\* a content block: text; image from a base64 source; thinking (a type the
\* switch has no case for); tool_use; tool_result with string content or
\* with an array as content
ContentBlock(type, ref, value, structured) ==
  [type |-> type, ref |-> ref, value |-> value, structured |-> structured]

ContentBlocks ==
  { ContentBlock("text", "", "Hello", FALSE),
    ContentBlock("image", "", "image/png;AAAA", FALSE),
    ContentBlock("thinking", "", "hmm", FALSE),
    ContentBlock("tool_use", "toolu_1", "get_weather", FALSE),
    ContentBlock("tool_result", "toolu_1", "sunny", FALSE),
    ContentBlock("tool_result", "toolu_2", "noon", TRUE) }

BlockLists == UNION { [1..n -> ContentBlocks] : n \in 0..MaxBlocks }

\* an input message: content is a string or an array of blocks
StringMessage(role, text) ==
  [role |-> role, isString |-> TRUE, text |-> text, blocks |-> <<>>]

ArrayMessage(role, blocks) ==
  [role |-> role, isString |-> FALSE, text |-> "", blocks |-> blocks]

AnthropicMessages ==
  { StringMessage("user", "Hi"), StringMessage("assistant", "Yes") }
    \cup { ArrayMessage("user", blocks) : blocks \in BlockLists }

MessageLists == UNION { [1..n -> AnthropicMessages] : n \in 0..MaxMessages }

\* an OpenAI message; content: a string, a list of parts, or missing
OpenAIMessage(role, contentKind, text, parts, toolCalls, toolCallId) ==
  [role |-> role, contentKind |-> contentKind, text |-> text, parts |-> parts,
   tool_calls |-> toolCalls, tool_call_id |-> toolCallId]

RECURSIVE JoinLines(_)
\* Array.join('\n')
JoinLines(texts) ==
  IF texts = <<>> THEN ""
  ELSE IF Len(texts) = 1 THEN texts[1]
  ELSE texts[1] \o "\n" \o JoinLines(Tail(texts))

\* lines 41-64: the leading system message
SystemMessages(system) ==
  LET text == IF system.kind = "string" THEN system.text
              ELSE IF system.kind = "array" THEN JoinLines(system.blocks)
              ELSE ""
  IN  IF text = "" THEN <<>>
      ELSE <<OpenAIMessage("system", "string", text, <<>>, <<>>, "")>>

\* the blocks of the list with a type of the set, in order
RECURSIVE BlocksOfTypes(_, _)
BlocksOfTypes(blocks, types) ==
  IF blocks = <<>> THEN <<>>
  ELSE (IF Head(blocks).type \in types THEN <<Head(blocks)>> ELSE <<>>)
         \o BlocksOfTypes(Tail(blocks), types)

\* lines 80-108, 134-160: the parts text and image blocks become
ContentPart(block) ==
  IF block.type = "text" THEN [type |-> "text", value |-> block.value]
  ELSE [type |-> "image_url", value |-> "data:" \o block.value]

\* lines 110-122: a tool_use block as a tool call
ToolCallOf(block) ==
  [id |-> block.ref, type |-> "function", name |-> block.value]

\* lines 124-132: the content of a tool result, stringified when not a string
ToolResultContent(block) ==
  IF block.structured
  THEN "[{\"type\":\"text\",\"text\":\"" \o block.value \o "\"}]"
  ELSE block.value

ToolMessage(block) ==
  OpenAIMessage("tool", "string", ToolResultContent(block), <<>>, <<>>, block.ref)

\* lines 163-190: the main message of an array-content message
MainMessages(msg) ==
  LET content == BlocksOfTypes(msg.blocks, {"text", "image"})
      transformedContent == [i \in 1..Len(content) |-> ContentPart(content[i])]
      uses == BlocksOfTypes(msg.blocks, {"tool_use"})
      toolCalls == [i \in 1..Len(uses) |-> ToolCallOf(uses[i])]
  IN  IF Len(transformedContent) = 0 /\ Len(toolCalls) = 0 THEN <<>>
      ELSE IF Len(transformedContent) = 0
      THEN <<OpenAIMessage(msg.role, "string", "", <<>>, toolCalls, "")>>
      ELSE IF Len(transformedContent) = 1 /\ transformedContent[1].type = "text"
      THEN <<OpenAIMessage(msg.role, "string", transformedContent[1].value,
                           <<>>, toolCalls, "")>>
      ELSE <<OpenAIMessage(msg.role, "parts", "", transformedContent,
                           toolCalls, "")>>

\* lines 192-199, with the tool messages put before the main message
MessageOutputToolsFirst(msg) ==
  IF msg.isString
  THEN <<OpenAIMessage(msg.role, "string", msg.text, <<>>, <<>>, "")>>
  ELSE LET results == BlocksOfTypes(msg.blocks, {"tool_result"})
       IN  [i \in 1..Len(results) |-> ToolMessage(results[i])]
             \o MainMessages(msg)

\* lines 70-200: the messages one input message becomes
MessageOutput(msg) ==
  IF msg.isString
  THEN <<OpenAIMessage(msg.role, "string", msg.text, <<>>, <<>>, "")>>
  ELSE LET results == BlocksOfTypes(msg.blocks, {"tool_result"})
       IN  MainMessages(msg)
             \o [i \in 1..Len(results) |-> ToolMessage(results[i])]

RECURSIVE MessagesOutput(_)
MessagesOutput(msgs) ==
  IF msgs = <<>> THEN <<>>
  ELSE MessageOutput(Head(msgs)) \o MessagesOutput(Tail(msgs))

\* transformMessages
TransformMessages(system, msgs) == SystemMessages(system) \o MessagesOutput(msgs)

\* the request is transformed
TmTransform ==
  /\ ~tmDone
  /\ tmResult' = TransformMessages(tmSystem, tmMessages)
  /\ tmDone' = TRUE
  /\ UNCHANGED <<tmSystem, tmMessages>>
  /\ UNCHANGED notTM

TMNext == TmTransform

(***************************************************************************)
(* Specifications                                                          *)
(***************************************************************************)
\* the rate limiter starts with an empty store; the other parts are at rest
InitRL ==
  /\ now = 0
  /\ rlLimit \in 1..MaxLimit
  /\ rlStore = [w \in Windows |-> NoKey]
  /\ rlPc = [c \in Callers |-> "idle"]
  /\ rlNow = [c \in Callers |-> 0]
  /\ rlAllowed = <<>>
  /\ rlDenied = 0
  /\ userBudgetLimit = [u \in Users |-> IF u = 1 THEN 1000 ELSE NoLimit]
  /\ userBudgetUsed = [u \in Users |-> IF u = 1 THEN 995 ELSE 0]
  /\ userCredits = [u \in Users |-> 1000000000]
  /\ keyBudgetUsed = [k \in Keys |-> 0]
  /\ inflight = {}
  /\ nextId = 1
  /\ rejected = FALSE
  /\ queue = <<>>
  /\ lockTtl = 0
  /\ wPc = [w \in Workers |-> "idle"]
  /\ wLen = [w \in Workers |-> 0]
  /\ wBatch = [w \in Workers |-> <<>>]
  /\ wFailed = [w \in Workers |-> {}]
  /\ chRows = {}
  /\ popCount = [i \in RequestIds |-> 0]
  /\ userCharged = [i \in RequestIds |-> 0]
  /\ keyCharged = [i \in RequestIds |-> 0]
  /\ stState = EmptyState
  /\ stIn = <<>>
  /\ stOut = <<>>
  /\ stLast = <<>>
  /\ stEnded = FALSE
  /\ vkUserLimit = NoLimit
  /\ vkUserUsed = 0
  /\ vkCredits = 0
  /\ vkKeyLimit = NoLimit
  /\ vkKeyUsed = 0
  /\ vkRequest = NoRequest
  /\ vkResponse = NoResponse
  /\ vkContext = NoContext
  /\ vkForwarded = FALSE
  /\ rmClock = 1
  /\ rmRpm = NullRpm
  /\ rmTier = "STANDARD"
  /\ rmStore = [w \in Windows |-> NoKey]
  /\ rmCalls = [i \in DOMAIN ScenarioTimes |-> 0]
  /\ rmAdmitted = [i \in DOMAIN ScenarioTimes |-> 0]
  /\ rmRetryAfter = [i \in DOMAIN ScenarioTimes |-> {}]
  /\ rmErrors = 0
  /\ rmLast = Outcome(FALSE, 0, NoHeaders, 0, "none")
  /\ slAccount = FALSE
  /\ slIn = <<>>
  /\ slOut = <<>>
  /\ slUsage = NoUsage
  /\ slPhase = "open"
  /\ slRecord = NoRecord
  /\ slEnqueue = "none"
  /\ slQueue = <<>>
  /\ agBatch = <<>>
  /\ agUserUsed = [u \in Users |-> 0]
  /\ agKeyUsed = [k \in Keys |-> 0]
  /\ agUsers = {}
  /\ agKeys = {}
  /\ agRows = {}
  /\ agSettled = FALSE
  /\ mcClock = 0
  /\ mcCache = [m \in ResolvedModels |-> NoEntry]
  /\ mcQueries = [m \in ResolvedModels |-> 0]
  /\ mcHits = [m \in ResolvedModels |-> 0]
  /\ mcLast = [model |-> "", result |-> JsNull, queried |-> FALSE]
  /\ sdPc = "serving"
  /\ sdSignal = ""
  /\ sdTimer = TRUE
  /\ sdPoolOpen = TRUE
  /\ sdRedisOpen = TRUE
  /\ sdQueue = <<>>
  /\ sdNextId = 1
  /\ sdSettled = {}
  /\ sdAtSignal = {}
  /\ utStatus = 200
  /\ utResponse = NoResponseBody
  /\ utResult = NoResult
  /\ rcLimit = 1
  /\ rcNow = WINDOW_SIZE_SECONDS
  /\ rcPrev = 0
  /\ rcCurr = 0
  /\ rcStore = [w \in Windows |-> NoKey]
  /\ rcResult = NoRcResult
  /\ dqQueue = <<>>
  /\ dqNextId = 1
  /\ dqEnqueued = 0
  /\ dqLock = FALSE
  /\ dqPc = "idle"
  /\ dqLen = 0
  /\ dqAtLen = <<>>
  /\ dqDuring = {}
  /\ dqBatch = <<>>
  /\ dqTicks = 0
  /\ tmSystem = [kind |-> "undefined", text |-> "", blocks |-> <<>>]
  /\ tmMessages = <<>>
  /\ tmResult = <<>>
  /\ tmDone = FALSE

\* accounts, keys, queue and workers at start; the other parts are at rest
InitSQ ==
  /\ userBudgetLimit = [u \in Users |-> IF u = 1 THEN 1000 ELSE NoLimit]
  /\ userBudgetUsed = [u \in Users |-> IF u = 1 THEN 995 ELSE 0]
  /\ userCredits = [u \in Users |-> 1000000000]
  /\ keyBudgetUsed = [k \in Keys |-> 0]
  /\ inflight = {}
  /\ nextId = 1
  /\ rejected = FALSE
  /\ queue = <<>>
  /\ lockTtl = 0
  /\ wPc = [w \in Workers |-> "idle"]
  /\ wLen = [w \in Workers |-> 0]
  /\ wBatch = [w \in Workers |-> <<>>]
  /\ wFailed = [w \in Workers |-> {}]
  /\ chRows = {}
  /\ popCount = [i \in RequestIds |-> 0]
  /\ userCharged = [i \in RequestIds |-> 0]
  /\ keyCharged = [i \in RequestIds |-> 0]
  /\ now = 0
  /\ rlLimit = 1
  /\ rlStore = [w \in Windows |-> NoKey]
  /\ rlPc = [c \in Callers |-> "idle"]
  /\ rlNow = [c \in Callers |-> 0]
  /\ rlAllowed = <<>>
  /\ rlDenied = 0
  /\ stState = EmptyState
  /\ stIn = <<>>
  /\ stOut = <<>>
  /\ stLast = <<>>
  /\ stEnded = FALSE
  /\ vkUserLimit = NoLimit
  /\ vkUserUsed = 0
  /\ vkCredits = 0
  /\ vkKeyLimit = NoLimit
  /\ vkKeyUsed = 0
  /\ vkRequest = NoRequest
  /\ vkResponse = NoResponse
  /\ vkContext = NoContext
  /\ vkForwarded = FALSE
  /\ rmClock = 1
  /\ rmRpm = NullRpm
  /\ rmTier = "STANDARD"
  /\ rmStore = [w \in Windows |-> NoKey]
  /\ rmCalls = [i \in DOMAIN ScenarioTimes |-> 0]
  /\ rmAdmitted = [i \in DOMAIN ScenarioTimes |-> 0]
  /\ rmRetryAfter = [i \in DOMAIN ScenarioTimes |-> {}]
  /\ rmErrors = 0
  /\ rmLast = Outcome(FALSE, 0, NoHeaders, 0, "none")
  /\ slAccount = FALSE
  /\ slIn = <<>>
  /\ slOut = <<>>
  /\ slUsage = NoUsage
  /\ slPhase = "open"
  /\ slRecord = NoRecord
  /\ slEnqueue = "none"
  /\ slQueue = <<>>
  /\ agBatch = <<>>
  /\ agUserUsed = [u \in Users |-> 0]
  /\ agKeyUsed = [k \in Keys |-> 0]
  /\ agUsers = {}
  /\ agKeys = {}
  /\ agRows = {}
  /\ agSettled = FALSE
  /\ mcClock = 0
  /\ mcCache = [m \in ResolvedModels |-> NoEntry]
  /\ mcQueries = [m \in ResolvedModels |-> 0]
  /\ mcHits = [m \in ResolvedModels |-> 0]
  /\ mcLast = [model |-> "", result |-> JsNull, queried |-> FALSE]
  /\ sdPc = "serving"
  /\ sdSignal = ""
  /\ sdTimer = TRUE
  /\ sdPoolOpen = TRUE
  /\ sdRedisOpen = TRUE
  /\ sdQueue = <<>>
  /\ sdNextId = 1
  /\ sdSettled = {}
  /\ sdAtSignal = {}
  /\ utStatus = 200
  /\ utResponse = NoResponseBody
  /\ utResult = NoResult
  /\ rcLimit = 1
  /\ rcNow = WINDOW_SIZE_SECONDS
  /\ rcPrev = 0
  /\ rcCurr = 0
  /\ rcStore = [w \in Windows |-> NoKey]
  /\ rcResult = NoRcResult
  /\ dqQueue = <<>>
  /\ dqNextId = 1
  /\ dqEnqueued = 0
  /\ dqLock = FALSE
  /\ dqPc = "idle"
  /\ dqLen = 0
  /\ dqAtLen = <<>>
  /\ dqDuring = {}
  /\ dqBatch = <<>>
  /\ dqTicks = 0
  /\ tmSystem = [kind |-> "undefined", text |-> "", blocks |-> <<>>]
  /\ tmMessages = <<>>
  /\ tmResult = <<>>
  /\ tmDone = FALSE

\* a fresh stream state object; the other parts are at rest
InitST ==
  /\ stState = EmptyState
  /\ stIn = <<>>
  /\ stOut = <<>>
  /\ stLast = <<>>
  /\ stEnded = FALSE
  /\ now = 0
  /\ rlLimit = 1
  /\ rlStore = [w \in Windows |-> NoKey]
  /\ rlPc = [c \in Callers |-> "idle"]
  /\ rlNow = [c \in Callers |-> 0]
  /\ rlAllowed = <<>>
  /\ rlDenied = 0
  /\ userBudgetLimit = [u \in Users |-> IF u = 1 THEN 1000 ELSE NoLimit]
  /\ userBudgetUsed = [u \in Users |-> IF u = 1 THEN 995 ELSE 0]
  /\ userCredits = [u \in Users |-> 1000000000]
  /\ keyBudgetUsed = [k \in Keys |-> 0]
  /\ inflight = {}
  /\ nextId = 1
  /\ rejected = FALSE
  /\ queue = <<>>
  /\ lockTtl = 0
  /\ wPc = [w \in Workers |-> "idle"]
  /\ wLen = [w \in Workers |-> 0]
  /\ wBatch = [w \in Workers |-> <<>>]
  /\ wFailed = [w \in Workers |-> {}]
  /\ chRows = {}
  /\ popCount = [i \in RequestIds |-> 0]
  /\ userCharged = [i \in RequestIds |-> 0]
  /\ keyCharged = [i \in RequestIds |-> 0]
  /\ vkUserLimit = NoLimit
  /\ vkUserUsed = 0
  /\ vkCredits = 0
  /\ vkKeyLimit = NoLimit
  /\ vkKeyUsed = 0
  /\ vkRequest = NoRequest
  /\ vkResponse = NoResponse
  /\ vkContext = NoContext
  /\ vkForwarded = FALSE
  /\ rmClock = 1
  /\ rmRpm = NullRpm
  /\ rmTier = "STANDARD"
  /\ rmStore = [w \in Windows |-> NoKey]
  /\ rmCalls = [i \in DOMAIN ScenarioTimes |-> 0]
  /\ rmAdmitted = [i \in DOMAIN ScenarioTimes |-> 0]
  /\ rmRetryAfter = [i \in DOMAIN ScenarioTimes |-> {}]
  /\ rmErrors = 0
  /\ rmLast = Outcome(FALSE, 0, NoHeaders, 0, "none")
  /\ slAccount = FALSE
  /\ slIn = <<>>
  /\ slOut = <<>>
  /\ slUsage = NoUsage
  /\ slPhase = "open"
  /\ slRecord = NoRecord
  /\ slEnqueue = "none"
  /\ slQueue = <<>>
  /\ agBatch = <<>>
  /\ agUserUsed = [u \in Users |-> 0]
  /\ agKeyUsed = [k \in Keys |-> 0]
  /\ agUsers = {}
  /\ agKeys = {}
  /\ agRows = {}
  /\ agSettled = FALSE
  /\ mcClock = 0
  /\ mcCache = [m \in ResolvedModels |-> NoEntry]
  /\ mcQueries = [m \in ResolvedModels |-> 0]
  /\ mcHits = [m \in ResolvedModels |-> 0]
  /\ mcLast = [model |-> "", result |-> JsNull, queried |-> FALSE]
  /\ sdPc = "serving"
  /\ sdSignal = ""
  /\ sdTimer = TRUE
  /\ sdPoolOpen = TRUE
  /\ sdRedisOpen = TRUE
  /\ sdQueue = <<>>
  /\ sdNextId = 1
  /\ sdSettled = {}
  /\ sdAtSignal = {}
  /\ utStatus = 200
  /\ utResponse = NoResponseBody
  /\ utResult = NoResult
  /\ rcLimit = 1
  /\ rcNow = WINDOW_SIZE_SECONDS
  /\ rcPrev = 0
  /\ rcCurr = 0
  /\ rcStore = [w \in Windows |-> NoKey]
  /\ rcResult = NoRcResult
  /\ dqQueue = <<>>
  /\ dqNextId = 1
  /\ dqEnqueued = 0
  /\ dqLock = FALSE
  /\ dqPc = "idle"
  /\ dqLen = 0
  /\ dqAtLen = <<>>
  /\ dqDuring = {}
  /\ dqBatch = <<>>
  /\ dqTicks = 0
  /\ tmSystem = [kind |-> "undefined", text |-> "", blocks |-> <<>>]
  /\ tmMessages = <<>>
  /\ tmResult = <<>>
  /\ tmDone = FALSE

\* the stored account and keys, no request yet; the other parts are at rest
InitVK ==
  /\ vkUserLimit \in BudgetLimits
  /\ vkUserUsed \in 0..MaxBudgetUsed
  /\ vkCredits \in CreditAmounts
  /\ vkKeyLimit \in BudgetLimits
  /\ vkKeyUsed \in 0..MaxBudgetUsed
  /\ vkRequest = NoRequest
  /\ vkResponse = NoResponse
  /\ vkContext = NoContext
  /\ vkForwarded = FALSE
  /\ stState = EmptyState
  /\ stIn = <<>>
  /\ stOut = <<>>
  /\ stLast = <<>>
  /\ stEnded = FALSE
  /\ now = 0
  /\ rlLimit = 1
  /\ rlStore = [w \in Windows |-> NoKey]
  /\ rlPc = [c \in Callers |-> "idle"]
  /\ rlNow = [c \in Callers |-> 0]
  /\ rlAllowed = <<>>
  /\ rlDenied = 0
  /\ userBudgetLimit = [u \in Users |-> IF u = 1 THEN 1000 ELSE NoLimit]
  /\ userBudgetUsed = [u \in Users |-> IF u = 1 THEN 995 ELSE 0]
  /\ userCredits = [u \in Users |-> 1000000000]
  /\ keyBudgetUsed = [k \in Keys |-> 0]
  /\ inflight = {}
  /\ nextId = 1
  /\ rejected = FALSE
  /\ queue = <<>>
  /\ lockTtl = 0
  /\ wPc = [w \in Workers |-> "idle"]
  /\ wLen = [w \in Workers |-> 0]
  /\ wBatch = [w \in Workers |-> <<>>]
  /\ wFailed = [w \in Workers |-> {}]
  /\ chRows = {}
  /\ popCount = [i \in RequestIds |-> 0]
  /\ userCharged = [i \in RequestIds |-> 0]
  /\ keyCharged = [i \in RequestIds |-> 0]
  /\ rmClock = 1
  /\ rmRpm = NullRpm
  /\ rmTier = "STANDARD"
  /\ rmStore = [w \in Windows |-> NoKey]
  /\ rmCalls = [i \in DOMAIN ScenarioTimes |-> 0]
  /\ rmAdmitted = [i \in DOMAIN ScenarioTimes |-> 0]
  /\ rmRetryAfter = [i \in DOMAIN ScenarioTimes |-> {}]
  /\ rmErrors = 0
  /\ rmLast = Outcome(FALSE, 0, NoHeaders, 0, "none")
  /\ slAccount = FALSE
  /\ slIn = <<>>
  /\ slOut = <<>>
  /\ slUsage = NoUsage
  /\ slPhase = "open"
  /\ slRecord = NoRecord
  /\ slEnqueue = "none"
  /\ slQueue = <<>>
  /\ agBatch = <<>>
  /\ agUserUsed = [u \in Users |-> 0]
  /\ agKeyUsed = [k \in Keys |-> 0]
  /\ agUsers = {}
  /\ agKeys = {}
  /\ agRows = {}
  /\ agSettled = FALSE
  /\ mcClock = 0
  /\ mcCache = [m \in ResolvedModels |-> NoEntry]
  /\ mcQueries = [m \in ResolvedModels |-> 0]
  /\ mcHits = [m \in ResolvedModels |-> 0]
  /\ mcLast = [model |-> "", result |-> JsNull, queried |-> FALSE]
  /\ sdPc = "serving"
  /\ sdSignal = ""
  /\ sdTimer = TRUE
  /\ sdPoolOpen = TRUE
  /\ sdRedisOpen = TRUE
  /\ sdQueue = <<>>
  /\ sdNextId = 1
  /\ sdSettled = {}
  /\ sdAtSignal = {}
  /\ utStatus = 200
  /\ utResponse = NoResponseBody
  /\ utResult = NoResult
  /\ rcLimit = 1
  /\ rcNow = WINDOW_SIZE_SECONDS
  /\ rcPrev = 0
  /\ rcCurr = 0
  /\ rcStore = [w \in Windows |-> NoKey]
  /\ rcResult = NoRcResult
  /\ dqQueue = <<>>
  /\ dqNextId = 1
  /\ dqEnqueued = 0
  /\ dqLock = FALSE
  /\ dqPc = "idle"
  /\ dqLen = 0
  /\ dqAtLen = <<>>
  /\ dqDuring = {}
  /\ dqBatch = <<>>
  /\ dqTicks = 0
  /\ tmSystem = [kind |-> "undefined", text |-> "", blocks |-> <<>>]
  /\ tmMessages = <<>>
  /\ tmResult = <<>>
  /\ tmDone = FALSE

\* empty counters, no request yet; the other parts are at rest
InitRM ==
  /\ rmClock = 1
  /\ rmRpm \in {NullRpm, 10}
  /\ rmTier \in {"STANDARD", ENTERPRISE_TIER}
  /\ rmStore = [w \in Windows |-> NoKey]
  /\ rmCalls = [i \in DOMAIN ScenarioTimes |-> 0]
  /\ rmAdmitted = [i \in DOMAIN ScenarioTimes |-> 0]
  /\ rmRetryAfter = [i \in DOMAIN ScenarioTimes |-> {}]
  /\ rmErrors = 0
  /\ rmLast = Outcome(FALSE, 0, NoHeaders, 0, "none")
  /\ stState = EmptyState
  /\ stIn = <<>>
  /\ stOut = <<>>
  /\ stLast = <<>>
  /\ stEnded = FALSE
  /\ now = 0
  /\ rlLimit = 1
  /\ rlStore = [w \in Windows |-> NoKey]
  /\ rlPc = [c \in Callers |-> "idle"]
  /\ rlNow = [c \in Callers |-> 0]
  /\ rlAllowed = <<>>
  /\ rlDenied = 0
  /\ userBudgetLimit = [u \in Users |-> IF u = 1 THEN 1000 ELSE NoLimit]
  /\ userBudgetUsed = [u \in Users |-> IF u = 1 THEN 995 ELSE 0]
  /\ userCredits = [u \in Users |-> 1000000000]
  /\ keyBudgetUsed = [k \in Keys |-> 0]
  /\ inflight = {}
  /\ nextId = 1
  /\ rejected = FALSE
  /\ queue = <<>>
  /\ lockTtl = 0
  /\ wPc = [w \in Workers |-> "idle"]
  /\ wLen = [w \in Workers |-> 0]
  /\ wBatch = [w \in Workers |-> <<>>]
  /\ wFailed = [w \in Workers |-> {}]
  /\ chRows = {}
  /\ popCount = [i \in RequestIds |-> 0]
  /\ userCharged = [i \in RequestIds |-> 0]
  /\ keyCharged = [i \in RequestIds |-> 0]
  /\ vkUserLimit = NoLimit
  /\ vkUserUsed = 0
  /\ vkCredits = 0
  /\ vkKeyLimit = NoLimit
  /\ vkKeyUsed = 0
  /\ vkRequest = NoRequest
  /\ vkResponse = NoResponse
  /\ vkContext = NoContext
  /\ vkForwarded = FALSE
  /\ slAccount = FALSE
  /\ slIn = <<>>
  /\ slOut = <<>>
  /\ slUsage = NoUsage
  /\ slPhase = "open"
  /\ slRecord = NoRecord
  /\ slEnqueue = "none"
  /\ slQueue = <<>>
  /\ agBatch = <<>>
  /\ agUserUsed = [u \in Users |-> 0]
  /\ agKeyUsed = [k \in Keys |-> 0]
  /\ agUsers = {}
  /\ agKeys = {}
  /\ agRows = {}
  /\ agSettled = FALSE
  /\ mcClock = 0
  /\ mcCache = [m \in ResolvedModels |-> NoEntry]
  /\ mcQueries = [m \in ResolvedModels |-> 0]
  /\ mcHits = [m \in ResolvedModels |-> 0]
  /\ mcLast = [model |-> "", result |-> JsNull, queried |-> FALSE]
  /\ sdPc = "serving"
  /\ sdSignal = ""
  /\ sdTimer = TRUE
  /\ sdPoolOpen = TRUE
  /\ sdRedisOpen = TRUE
  /\ sdQueue = <<>>
  /\ sdNextId = 1
  /\ sdSettled = {}
  /\ sdAtSignal = {}
  /\ utStatus = 200
  /\ utResponse = NoResponseBody
  /\ utResult = NoResult
  /\ rcLimit = 1
  /\ rcNow = WINDOW_SIZE_SECONDS
  /\ rcPrev = 0
  /\ rcCurr = 0
  /\ rcStore = [w \in Windows |-> NoKey]
  /\ rcResult = NoRcResult
  /\ dqQueue = <<>>
  /\ dqNextId = 1
  /\ dqEnqueued = 0
  /\ dqLock = FALSE
  /\ dqPc = "idle"
  /\ dqLen = 0
  /\ dqAtLen = <<>>
  /\ dqDuring = {}
  /\ dqBatch = <<>>
  /\ dqTicks = 0
  /\ tmSystem = [kind |-> "undefined", text |-> "", blocks |-> <<>>]
  /\ tmMessages = <<>>
  /\ tmResult = <<>>
  /\ tmDone = FALSE

\* a streamed response whose body has not been read yet; the other parts are at rest
InitSL ==
  /\ slAccount \in BOOLEAN
  /\ slIn = <<>>
  /\ slOut = <<>>
  /\ slUsage = NoUsage
  /\ slPhase = "open"
  /\ slRecord = NoRecord
  /\ slEnqueue = "none"
  /\ slQueue = <<>>
  /\ stState = EmptyState
  /\ stIn = <<>>
  /\ stOut = <<>>
  /\ stLast = <<>>
  /\ stEnded = FALSE
  /\ now = 0
  /\ rlLimit = 1
  /\ rlStore = [w \in Windows |-> NoKey]
  /\ rlPc = [c \in Callers |-> "idle"]
  /\ rlNow = [c \in Callers |-> 0]
  /\ rlAllowed = <<>>
  /\ rlDenied = 0
  /\ userBudgetLimit = [u \in Users |-> IF u = 1 THEN 1000 ELSE NoLimit]
  /\ userBudgetUsed = [u \in Users |-> IF u = 1 THEN 995 ELSE 0]
  /\ userCredits = [u \in Users |-> 1000000000]
  /\ keyBudgetUsed = [k \in Keys |-> 0]
  /\ inflight = {}
  /\ nextId = 1
  /\ rejected = FALSE
  /\ queue = <<>>
  /\ lockTtl = 0
  /\ wPc = [w \in Workers |-> "idle"]
  /\ wLen = [w \in Workers |-> 0]
  /\ wBatch = [w \in Workers |-> <<>>]
  /\ wFailed = [w \in Workers |-> {}]
  /\ chRows = {}
  /\ popCount = [i \in RequestIds |-> 0]
  /\ userCharged = [i \in RequestIds |-> 0]
  /\ keyCharged = [i \in RequestIds |-> 0]
  /\ vkUserLimit = NoLimit
  /\ vkUserUsed = 0
  /\ vkCredits = 0
  /\ vkKeyLimit = NoLimit
  /\ vkKeyUsed = 0
  /\ vkRequest = NoRequest
  /\ vkResponse = NoResponse
  /\ vkContext = NoContext
  /\ vkForwarded = FALSE
  /\ rmClock = 1
  /\ rmRpm = NullRpm
  /\ rmTier = "STANDARD"
  /\ rmStore = [w \in Windows |-> NoKey]
  /\ rmCalls = [i \in DOMAIN ScenarioTimes |-> 0]
  /\ rmAdmitted = [i \in DOMAIN ScenarioTimes |-> 0]
  /\ rmRetryAfter = [i \in DOMAIN ScenarioTimes |-> {}]
  /\ rmErrors = 0
  /\ rmLast = Outcome(FALSE, 0, NoHeaders, 0, "none")
  /\ agBatch = <<>>
  /\ agUserUsed = [u \in Users |-> 0]
  /\ agKeyUsed = [k \in Keys |-> 0]
  /\ agUsers = {}
  /\ agKeys = {}
  /\ agRows = {}
  /\ agSettled = FALSE
  /\ mcClock = 0
  /\ mcCache = [m \in ResolvedModels |-> NoEntry]
  /\ mcQueries = [m \in ResolvedModels |-> 0]
  /\ mcHits = [m \in ResolvedModels |-> 0]
  /\ mcLast = [model |-> "", result |-> JsNull, queried |-> FALSE]
  /\ sdPc = "serving"
  /\ sdSignal = ""
  /\ sdTimer = TRUE
  /\ sdPoolOpen = TRUE
  /\ sdRedisOpen = TRUE
  /\ sdQueue = <<>>
  /\ sdNextId = 1
  /\ sdSettled = {}
  /\ sdAtSignal = {}
  /\ utStatus = 200
  /\ utResponse = NoResponseBody
  /\ utResult = NoResult
  /\ rcLimit = 1
  /\ rcNow = WINDOW_SIZE_SECONDS
  /\ rcPrev = 0
  /\ rcCurr = 0
  /\ rcStore = [w \in Windows |-> NoKey]
  /\ rcResult = NoRcResult
  /\ dqQueue = <<>>
  /\ dqNextId = 1
  /\ dqEnqueued = 0
  /\ dqLock = FALSE
  /\ dqPc = "idle"
  /\ dqLen = 0
  /\ dqAtLen = <<>>
  /\ dqDuring = {}
  /\ dqBatch = <<>>
  /\ dqTicks = 0
  /\ tmSystem = [kind |-> "undefined", text |-> "", blocks |-> <<>>]
  /\ tmMessages = <<>>
  /\ tmResult = <<>>
  /\ tmDone = FALSE

\* an empty batch and unspent budgets; the other parts are at rest
InitAG ==
  /\ agBatch = <<>>
  /\ agUserUsed = [u \in Users |-> 0]
  /\ agKeyUsed = [k \in Keys |-> 0]
  /\ agUsers = {}
  /\ agKeys = {}
  /\ agRows = {}
  /\ agSettled = FALSE
  /\ stState = EmptyState
  /\ stIn = <<>>
  /\ stOut = <<>>
  /\ stLast = <<>>
  /\ stEnded = FALSE
  /\ now = 0
  /\ rlLimit = 1
  /\ rlStore = [w \in Windows |-> NoKey]
  /\ rlPc = [c \in Callers |-> "idle"]
  /\ rlNow = [c \in Callers |-> 0]
  /\ rlAllowed = <<>>
  /\ rlDenied = 0
  /\ userBudgetLimit = [u \in Users |-> IF u = 1 THEN 1000 ELSE NoLimit]
  /\ userBudgetUsed = [u \in Users |-> IF u = 1 THEN 995 ELSE 0]
  /\ userCredits = [u \in Users |-> 1000000000]
  /\ keyBudgetUsed = [k \in Keys |-> 0]
  /\ inflight = {}
  /\ nextId = 1
  /\ rejected = FALSE
  /\ queue = <<>>
  /\ lockTtl = 0
  /\ wPc = [w \in Workers |-> "idle"]
  /\ wLen = [w \in Workers |-> 0]
  /\ wBatch = [w \in Workers |-> <<>>]
  /\ wFailed = [w \in Workers |-> {}]
  /\ chRows = {}
  /\ popCount = [i \in RequestIds |-> 0]
  /\ userCharged = [i \in RequestIds |-> 0]
  /\ keyCharged = [i \in RequestIds |-> 0]
  /\ vkUserLimit = NoLimit
  /\ vkUserUsed = 0
  /\ vkCredits = 0
  /\ vkKeyLimit = NoLimit
  /\ vkKeyUsed = 0
  /\ vkRequest = NoRequest
  /\ vkResponse = NoResponse
  /\ vkContext = NoContext
  /\ vkForwarded = FALSE
  /\ rmClock = 1
  /\ rmRpm = NullRpm
  /\ rmTier = "STANDARD"
  /\ rmStore = [w \in Windows |-> NoKey]
  /\ rmCalls = [i \in DOMAIN ScenarioTimes |-> 0]
  /\ rmAdmitted = [i \in DOMAIN ScenarioTimes |-> 0]
  /\ rmRetryAfter = [i \in DOMAIN ScenarioTimes |-> {}]
  /\ rmErrors = 0
  /\ rmLast = Outcome(FALSE, 0, NoHeaders, 0, "none")
  /\ slAccount = FALSE
  /\ slIn = <<>>
  /\ slOut = <<>>
  /\ slUsage = NoUsage
  /\ slPhase = "open"
  /\ slRecord = NoRecord
  /\ slEnqueue = "none"
  /\ slQueue = <<>>
  /\ mcClock = 0
  /\ mcCache = [m \in ResolvedModels |-> NoEntry]
  /\ mcQueries = [m \in ResolvedModels |-> 0]
  /\ mcHits = [m \in ResolvedModels |-> 0]
  /\ mcLast = [model |-> "", result |-> JsNull, queried |-> FALSE]
  /\ sdPc = "serving"
  /\ sdSignal = ""
  /\ sdTimer = TRUE
  /\ sdPoolOpen = TRUE
  /\ sdRedisOpen = TRUE
  /\ sdQueue = <<>>
  /\ sdNextId = 1
  /\ sdSettled = {}
  /\ sdAtSignal = {}
  /\ utStatus = 200
  /\ utResponse = NoResponseBody
  /\ utResult = NoResult
  /\ rcLimit = 1
  /\ rcNow = WINDOW_SIZE_SECONDS
  /\ rcPrev = 0
  /\ rcCurr = 0
  /\ rcStore = [w \in Windows |-> NoKey]
  /\ rcResult = NoRcResult
  /\ dqQueue = <<>>
  /\ dqNextId = 1
  /\ dqEnqueued = 0
  /\ dqLock = FALSE
  /\ dqPc = "idle"
  /\ dqLen = 0
  /\ dqAtLen = <<>>
  /\ dqDuring = {}
  /\ dqBatch = <<>>
  /\ dqTicks = 0
  /\ tmSystem = [kind |-> "undefined", text |-> "", blocks |-> <<>>]
  /\ tmMessages = <<>>
  /\ tmResult = <<>>
  /\ tmDone = FALSE

\* an empty cache; the other parts are at rest
InitMC ==
  /\ mcClock = 0
  /\ mcCache = [m \in ResolvedModels |-> NoEntry]
  /\ mcQueries = [m \in ResolvedModels |-> 0]
  /\ mcHits = [m \in ResolvedModels |-> 0]
  /\ mcLast = [model |-> "", result |-> JsNull, queried |-> FALSE]
  /\ stState = EmptyState
  /\ stIn = <<>>
  /\ stOut = <<>>
  /\ stLast = <<>>
  /\ stEnded = FALSE
  /\ now = 0
  /\ rlLimit = 1
  /\ rlStore = [w \in Windows |-> NoKey]
  /\ rlPc = [c \in Callers |-> "idle"]
  /\ rlNow = [c \in Callers |-> 0]
  /\ rlAllowed = <<>>
  /\ rlDenied = 0
  /\ userBudgetLimit = [u \in Users |-> IF u = 1 THEN 1000 ELSE NoLimit]
  /\ userBudgetUsed = [u \in Users |-> IF u = 1 THEN 995 ELSE 0]
  /\ userCredits = [u \in Users |-> 1000000000]
  /\ keyBudgetUsed = [k \in Keys |-> 0]
  /\ inflight = {}
  /\ nextId = 1
  /\ rejected = FALSE
  /\ queue = <<>>
  /\ lockTtl = 0
  /\ wPc = [w \in Workers |-> "idle"]
  /\ wLen = [w \in Workers |-> 0]
  /\ wBatch = [w \in Workers |-> <<>>]
  /\ wFailed = [w \in Workers |-> {}]
  /\ chRows = {}
  /\ popCount = [i \in RequestIds |-> 0]
  /\ userCharged = [i \in RequestIds |-> 0]
  /\ keyCharged = [i \in RequestIds |-> 0]
  /\ vkUserLimit = NoLimit
  /\ vkUserUsed = 0
  /\ vkCredits = 0
  /\ vkKeyLimit = NoLimit
  /\ vkKeyUsed = 0
  /\ vkRequest = NoRequest
  /\ vkResponse = NoResponse
  /\ vkContext = NoContext
  /\ vkForwarded = FALSE
  /\ rmClock = 1
  /\ rmRpm = NullRpm
  /\ rmTier = "STANDARD"
  /\ rmStore = [w \in Windows |-> NoKey]
  /\ rmCalls = [i \in DOMAIN ScenarioTimes |-> 0]
  /\ rmAdmitted = [i \in DOMAIN ScenarioTimes |-> 0]
  /\ rmRetryAfter = [i \in DOMAIN ScenarioTimes |-> {}]
  /\ rmErrors = 0
  /\ rmLast = Outcome(FALSE, 0, NoHeaders, 0, "none")
  /\ slAccount = FALSE
  /\ slIn = <<>>
  /\ slOut = <<>>
  /\ slUsage = NoUsage
  /\ slPhase = "open"
  /\ slRecord = NoRecord
  /\ slEnqueue = "none"
  /\ slQueue = <<>>
  /\ agBatch = <<>>
  /\ agUserUsed = [u \in Users |-> 0]
  /\ agKeyUsed = [k \in Keys |-> 0]
  /\ agUsers = {}
  /\ agKeys = {}
  /\ agRows = {}
  /\ agSettled = FALSE
  /\ sdPc = "serving"
  /\ sdSignal = ""
  /\ sdTimer = TRUE
  /\ sdPoolOpen = TRUE
  /\ sdRedisOpen = TRUE
  /\ sdQueue = <<>>
  /\ sdNextId = 1
  /\ sdSettled = {}
  /\ sdAtSignal = {}
  /\ utStatus = 200
  /\ utResponse = NoResponseBody
  /\ utResult = NoResult
  /\ rcLimit = 1
  /\ rcNow = WINDOW_SIZE_SECONDS
  /\ rcPrev = 0
  /\ rcCurr = 0
  /\ rcStore = [w \in Windows |-> NoKey]
  /\ rcResult = NoRcResult
  /\ dqQueue = <<>>
  /\ dqNextId = 1
  /\ dqEnqueued = 0
  /\ dqLock = FALSE
  /\ dqPc = "idle"
  /\ dqLen = 0
  /\ dqAtLen = <<>>
  /\ dqDuring = {}
  /\ dqBatch = <<>>
  /\ dqTicks = 0
  /\ tmSystem = [kind |-> "undefined", text |-> "", blocks |-> <<>>]
  /\ tmMessages = <<>>
  /\ tmResult = <<>>
  /\ tmDone = FALSE

\* the server is serving with the spend processor started; the other parts are at rest
InitSD ==
  /\ sdPc = "serving"
  /\ sdSignal = ""
  /\ sdTimer = TRUE
  /\ sdPoolOpen = TRUE
  /\ sdRedisOpen = TRUE
  /\ sdQueue = <<>>
  /\ sdNextId = 1
  /\ sdSettled = {}
  /\ sdAtSignal = {}
  /\ stState = EmptyState
  /\ stIn = <<>>
  /\ stOut = <<>>
  /\ stLast = <<>>
  /\ stEnded = FALSE
  /\ now = 0
  /\ rlLimit = 1
  /\ rlStore = [w \in Windows |-> NoKey]
  /\ rlPc = [c \in Callers |-> "idle"]
  /\ rlNow = [c \in Callers |-> 0]
  /\ rlAllowed = <<>>
  /\ rlDenied = 0
  /\ userBudgetLimit = [u \in Users |-> IF u = 1 THEN 1000 ELSE NoLimit]
  /\ userBudgetUsed = [u \in Users |-> IF u = 1 THEN 995 ELSE 0]
  /\ userCredits = [u \in Users |-> 1000000000]
  /\ keyBudgetUsed = [k \in Keys |-> 0]
  /\ inflight = {}
  /\ nextId = 1
  /\ rejected = FALSE
  /\ queue = <<>>
  /\ lockTtl = 0
  /\ wPc = [w \in Workers |-> "idle"]
  /\ wLen = [w \in Workers |-> 0]
  /\ wBatch = [w \in Workers |-> <<>>]
  /\ wFailed = [w \in Workers |-> {}]
  /\ chRows = {}
  /\ popCount = [i \in RequestIds |-> 0]
  /\ userCharged = [i \in RequestIds |-> 0]
  /\ keyCharged = [i \in RequestIds |-> 0]
  /\ vkUserLimit = NoLimit
  /\ vkUserUsed = 0
  /\ vkCredits = 0
  /\ vkKeyLimit = NoLimit
  /\ vkKeyUsed = 0
  /\ vkRequest = NoRequest
  /\ vkResponse = NoResponse
  /\ vkContext = NoContext
  /\ vkForwarded = FALSE
  /\ rmClock = 1
  /\ rmRpm = NullRpm
  /\ rmTier = "STANDARD"
  /\ rmStore = [w \in Windows |-> NoKey]
  /\ rmCalls = [i \in DOMAIN ScenarioTimes |-> 0]
  /\ rmAdmitted = [i \in DOMAIN ScenarioTimes |-> 0]
  /\ rmRetryAfter = [i \in DOMAIN ScenarioTimes |-> {}]
  /\ rmErrors = 0
  /\ rmLast = Outcome(FALSE, 0, NoHeaders, 0, "none")
  /\ slAccount = FALSE
  /\ slIn = <<>>
  /\ slOut = <<>>
  /\ slUsage = NoUsage
  /\ slPhase = "open"
  /\ slRecord = NoRecord
  /\ slEnqueue = "none"
  /\ slQueue = <<>>
  /\ agBatch = <<>>
  /\ agUserUsed = [u \in Users |-> 0]
  /\ agKeyUsed = [k \in Keys |-> 0]
  /\ agUsers = {}
  /\ agKeys = {}
  /\ agRows = {}
  /\ agSettled = FALSE
  /\ mcClock = 0
  /\ mcCache = [m \in ResolvedModels |-> NoEntry]
  /\ mcQueries = [m \in ResolvedModels |-> 0]
  /\ mcHits = [m \in ResolvedModels |-> 0]
  /\ mcLast = [model |-> "", result |-> JsNull, queried |-> FALSE]
  /\ utStatus = 200
  /\ utResponse = NoResponseBody
  /\ utResult = NoResult
  /\ rcLimit = 1
  /\ rcNow = WINDOW_SIZE_SECONDS
  /\ rcPrev = 0
  /\ rcCurr = 0
  /\ rcStore = [w \in Windows |-> NoKey]
  /\ rcResult = NoRcResult
  /\ dqQueue = <<>>
  /\ dqNextId = 1
  /\ dqEnqueued = 0
  /\ dqLock = FALSE
  /\ dqPc = "idle"
  /\ dqLen = 0
  /\ dqAtLen = <<>>
  /\ dqDuring = {}
  /\ dqBatch = <<>>
  /\ dqTicks = 0
  /\ tmSystem = [kind |-> "undefined", text |-> "", blocks |-> <<>>]
  /\ tmMessages = <<>>
  /\ tmResult = <<>>
  /\ tmDone = FALSE

\* an upstream response has arrived and is not yet transformed; the other parts are at rest
InitUT ==
  /\ utStatus \in ResponseStatuses
  /\ utResponse \in ResponseBodies
  /\ utResult = NoResult
  /\ stState = EmptyState
  /\ stIn = <<>>
  /\ stOut = <<>>
  /\ stLast = <<>>
  /\ stEnded = FALSE
  /\ now = 0
  /\ rlLimit = 1
  /\ rlStore = [w \in Windows |-> NoKey]
  /\ rlPc = [c \in Callers |-> "idle"]
  /\ rlNow = [c \in Callers |-> 0]
  /\ rlAllowed = <<>>
  /\ rlDenied = 0
  /\ userBudgetLimit = [u \in Users |-> IF u = 1 THEN 1000 ELSE NoLimit]
  /\ userBudgetUsed = [u \in Users |-> IF u = 1 THEN 995 ELSE 0]
  /\ userCredits = [u \in Users |-> 1000000000]
  /\ keyBudgetUsed = [k \in Keys |-> 0]
  /\ inflight = {}
  /\ nextId = 1
  /\ rejected = FALSE
  /\ queue = <<>>
  /\ lockTtl = 0
  /\ wPc = [w \in Workers |-> "idle"]
  /\ wLen = [w \in Workers |-> 0]
  /\ wBatch = [w \in Workers |-> <<>>]
  /\ wFailed = [w \in Workers |-> {}]
  /\ chRows = {}
  /\ popCount = [i \in RequestIds |-> 0]
  /\ userCharged = [i \in RequestIds |-> 0]
  /\ keyCharged = [i \in RequestIds |-> 0]
  /\ vkUserLimit = NoLimit
  /\ vkUserUsed = 0
  /\ vkCredits = 0
  /\ vkKeyLimit = NoLimit
  /\ vkKeyUsed = 0
  /\ vkRequest = NoRequest
  /\ vkResponse = NoResponse
  /\ vkContext = NoContext
  /\ vkForwarded = FALSE
  /\ rmClock = 1
  /\ rmRpm = NullRpm
  /\ rmTier = "STANDARD"
  /\ rmStore = [w \in Windows |-> NoKey]
  /\ rmCalls = [i \in DOMAIN ScenarioTimes |-> 0]
  /\ rmAdmitted = [i \in DOMAIN ScenarioTimes |-> 0]
  /\ rmRetryAfter = [i \in DOMAIN ScenarioTimes |-> {}]
  /\ rmErrors = 0
  /\ rmLast = Outcome(FALSE, 0, NoHeaders, 0, "none")
  /\ slAccount = FALSE
  /\ slIn = <<>>
  /\ slOut = <<>>
  /\ slUsage = NoUsage
  /\ slPhase = "open"
  /\ slRecord = NoRecord
  /\ slEnqueue = "none"
  /\ slQueue = <<>>
  /\ agBatch = <<>>
  /\ agUserUsed = [u \in Users |-> 0]
  /\ agKeyUsed = [k \in Keys |-> 0]
  /\ agUsers = {}
  /\ agKeys = {}
  /\ agRows = {}
  /\ agSettled = FALSE
  /\ mcClock = 0
  /\ mcCache = [m \in ResolvedModels |-> NoEntry]
  /\ mcQueries = [m \in ResolvedModels |-> 0]
  /\ mcHits = [m \in ResolvedModels |-> 0]
  /\ mcLast = [model |-> "", result |-> JsNull, queried |-> FALSE]
  /\ sdPc = "serving"
  /\ sdSignal = ""
  /\ sdTimer = TRUE
  /\ sdPoolOpen = TRUE
  /\ sdRedisOpen = TRUE
  /\ sdQueue = <<>>
  /\ sdNextId = 1
  /\ sdSettled = {}
  /\ sdAtSignal = {}
  /\ rcLimit = 1
  /\ rcNow = WINDOW_SIZE_SECONDS
  /\ rcPrev = 0
  /\ rcCurr = 0
  /\ rcStore = [w \in Windows |-> NoKey]
  /\ rcResult = NoRcResult
  /\ dqQueue = <<>>
  /\ dqNextId = 1
  /\ dqEnqueued = 0
  /\ dqLock = FALSE
  /\ dqPc = "idle"
  /\ dqLen = 0
  /\ dqAtLen = <<>>
  /\ dqDuring = {}
  /\ dqBatch = <<>>
  /\ dqTicks = 0
  /\ tmSystem = [kind |-> "undefined", text |-> "", blocks |-> <<>>]
  /\ tmMessages = <<>>
  /\ tmResult = <<>>
  /\ tmDone = FALSE

\* the counters of a caller before one call in the second window; the other parts are at rest
InitRC ==
  /\ rcLimit \in 1..MaxRcLimit
  /\ rcNow \in RcInstants
  /\ rcPrev \in 0..rcLimit
  /\ rcCurr \in 0..rcLimit
  /\ RcCounters(rcLimit, rcPrev, rcCurr, rcNow)
  /\ rcStore = RcStoreOf(rcPrev, rcCurr, rcNow)
  /\ rcResult = NoRcResult
  /\ stState = EmptyState
  /\ stIn = <<>>
  /\ stOut = <<>>
  /\ stLast = <<>>
  /\ stEnded = FALSE
  /\ now = 0
  /\ rlLimit = 1
  /\ rlStore = [w \in Windows |-> NoKey]
  /\ rlPc = [c \in Callers |-> "idle"]
  /\ rlNow = [c \in Callers |-> 0]
  /\ rlAllowed = <<>>
  /\ rlDenied = 0
  /\ userBudgetLimit = [u \in Users |-> IF u = 1 THEN 1000 ELSE NoLimit]
  /\ userBudgetUsed = [u \in Users |-> IF u = 1 THEN 995 ELSE 0]
  /\ userCredits = [u \in Users |-> 1000000000]
  /\ keyBudgetUsed = [k \in Keys |-> 0]
  /\ inflight = {}
  /\ nextId = 1
  /\ rejected = FALSE
  /\ queue = <<>>
  /\ lockTtl = 0
  /\ wPc = [w \in Workers |-> "idle"]
  /\ wLen = [w \in Workers |-> 0]
  /\ wBatch = [w \in Workers |-> <<>>]
  /\ wFailed = [w \in Workers |-> {}]
  /\ chRows = {}
  /\ popCount = [i \in RequestIds |-> 0]
  /\ userCharged = [i \in RequestIds |-> 0]
  /\ keyCharged = [i \in RequestIds |-> 0]
  /\ vkUserLimit = NoLimit
  /\ vkUserUsed = 0
  /\ vkCredits = 0
  /\ vkKeyLimit = NoLimit
  /\ vkKeyUsed = 0
  /\ vkRequest = NoRequest
  /\ vkResponse = NoResponse
  /\ vkContext = NoContext
  /\ vkForwarded = FALSE
  /\ rmClock = 1
  /\ rmRpm = NullRpm
  /\ rmTier = "STANDARD"
  /\ rmStore = [w \in Windows |-> NoKey]
  /\ rmCalls = [i \in DOMAIN ScenarioTimes |-> 0]
  /\ rmAdmitted = [i \in DOMAIN ScenarioTimes |-> 0]
  /\ rmRetryAfter = [i \in DOMAIN ScenarioTimes |-> {}]
  /\ rmErrors = 0
  /\ rmLast = Outcome(FALSE, 0, NoHeaders, 0, "none")
  /\ slAccount = FALSE
  /\ slIn = <<>>
  /\ slOut = <<>>
  /\ slUsage = NoUsage
  /\ slPhase = "open"
  /\ slRecord = NoRecord
  /\ slEnqueue = "none"
  /\ slQueue = <<>>
  /\ agBatch = <<>>
  /\ agUserUsed = [u \in Users |-> 0]
  /\ agKeyUsed = [k \in Keys |-> 0]
  /\ agUsers = {}
  /\ agKeys = {}
  /\ agRows = {}
  /\ agSettled = FALSE
  /\ mcClock = 0
  /\ mcCache = [m \in ResolvedModels |-> NoEntry]
  /\ mcQueries = [m \in ResolvedModels |-> 0]
  /\ mcHits = [m \in ResolvedModels |-> 0]
  /\ mcLast = [model |-> "", result |-> JsNull, queried |-> FALSE]
  /\ sdPc = "serving"
  /\ sdSignal = ""
  /\ sdTimer = TRUE
  /\ sdPoolOpen = TRUE
  /\ sdRedisOpen = TRUE
  /\ sdQueue = <<>>
  /\ sdNextId = 1
  /\ sdSettled = {}
  /\ sdAtSignal = {}
  /\ utStatus = 200
  /\ utResponse = NoResponseBody
  /\ utResult = NoResult
  /\ dqQueue = <<>>
  /\ dqNextId = 1
  /\ dqEnqueued = 0
  /\ dqLock = FALSE
  /\ dqPc = "idle"
  /\ dqLen = 0
  /\ dqAtLen = <<>>
  /\ dqDuring = {}
  /\ dqBatch = <<>>
  /\ dqTicks = 0
  /\ tmSystem = [kind |-> "undefined", text |-> "", blocks |-> <<>>]
  /\ tmMessages = <<>>
  /\ tmResult = <<>>
  /\ tmDone = FALSE

\* a queue of records left by earlier requests and an idle worker; the other parts are at rest
InitDQ ==
  /\ \E n \in InitialLengths : dqQueue = QueueOf(n) /\ dqNextId = n + 1
  /\ dqEnqueued = 0
  /\ dqLock = FALSE
  /\ dqPc = "idle"
  /\ dqLen = 0
  /\ dqAtLen = <<>>
  /\ dqDuring = {}
  /\ dqBatch = <<>>
  /\ dqTicks = 0
  /\ stState = EmptyState
  /\ stIn = <<>>
  /\ stOut = <<>>
  /\ stLast = <<>>
  /\ stEnded = FALSE
  /\ now = 0
  /\ rlLimit = 1
  /\ rlStore = [w \in Windows |-> NoKey]
  /\ rlPc = [c \in Callers |-> "idle"]
  /\ rlNow = [c \in Callers |-> 0]
  /\ rlAllowed = <<>>
  /\ rlDenied = 0
  /\ userBudgetLimit = [u \in Users |-> IF u = 1 THEN 1000 ELSE NoLimit]
  /\ userBudgetUsed = [u \in Users |-> IF u = 1 THEN 995 ELSE 0]
  /\ userCredits = [u \in Users |-> 1000000000]
  /\ keyBudgetUsed = [k \in Keys |-> 0]
  /\ inflight = {}
  /\ nextId = 1
  /\ rejected = FALSE
  /\ queue = <<>>
  /\ lockTtl = 0
  /\ wPc = [w \in Workers |-> "idle"]
  /\ wLen = [w \in Workers |-> 0]
  /\ wBatch = [w \in Workers |-> <<>>]
  /\ wFailed = [w \in Workers |-> {}]
  /\ chRows = {}
  /\ popCount = [i \in RequestIds |-> 0]
  /\ userCharged = [i \in RequestIds |-> 0]
  /\ keyCharged = [i \in RequestIds |-> 0]
  /\ vkUserLimit = NoLimit
  /\ vkUserUsed = 0
  /\ vkCredits = 0
  /\ vkKeyLimit = NoLimit
  /\ vkKeyUsed = 0
  /\ vkRequest = NoRequest
  /\ vkResponse = NoResponse
  /\ vkContext = NoContext
  /\ vkForwarded = FALSE
  /\ rmClock = 1
  /\ rmRpm = NullRpm
  /\ rmTier = "STANDARD"
  /\ rmStore = [w \in Windows |-> NoKey]
  /\ rmCalls = [i \in DOMAIN ScenarioTimes |-> 0]
  /\ rmAdmitted = [i \in DOMAIN ScenarioTimes |-> 0]
  /\ rmRetryAfter = [i \in DOMAIN ScenarioTimes |-> {}]
  /\ rmErrors = 0
  /\ rmLast = Outcome(FALSE, 0, NoHeaders, 0, "none")
  /\ slAccount = FALSE
  /\ slIn = <<>>
  /\ slOut = <<>>
  /\ slUsage = NoUsage
  /\ slPhase = "open"
  /\ slRecord = NoRecord
  /\ slEnqueue = "none"
  /\ slQueue = <<>>
  /\ agBatch = <<>>
  /\ agUserUsed = [u \in Users |-> 0]
  /\ agKeyUsed = [k \in Keys |-> 0]
  /\ agUsers = {}
  /\ agKeys = {}
  /\ agRows = {}
  /\ agSettled = FALSE
  /\ mcClock = 0
  /\ mcCache = [m \in ResolvedModels |-> NoEntry]
  /\ mcQueries = [m \in ResolvedModels |-> 0]
  /\ mcHits = [m \in ResolvedModels |-> 0]
  /\ mcLast = [model |-> "", result |-> JsNull, queried |-> FALSE]
  /\ sdPc = "serving"
  /\ sdSignal = ""
  /\ sdTimer = TRUE
  /\ sdPoolOpen = TRUE
  /\ sdRedisOpen = TRUE
  /\ sdQueue = <<>>
  /\ sdNextId = 1
  /\ sdSettled = {}
  /\ sdAtSignal = {}
  /\ utStatus = 200
  /\ utResponse = NoResponseBody
  /\ utResult = NoResult
  /\ rcLimit = 1
  /\ rcNow = WINDOW_SIZE_SECONDS
  /\ rcPrev = 0
  /\ rcCurr = 0
  /\ rcStore = [w \in Windows |-> NoKey]
  /\ rcResult = NoRcResult
  /\ tmSystem = [kind |-> "undefined", text |-> "", blocks |-> <<>>]
  /\ tmMessages = <<>>
  /\ tmResult = <<>>
  /\ tmDone = FALSE

\* an Anthropic request not yet transformed; the other parts are at rest
InitTM ==
  /\ tmSystem \in SystemValues
  /\ tmMessages \in MessageLists
  /\ tmResult = <<>>
  /\ tmDone = FALSE
  /\ stState = EmptyState
  /\ stIn = <<>>
  /\ stOut = <<>>
  /\ stLast = <<>>
  /\ stEnded = FALSE
  /\ now = 0
  /\ rlLimit = 1
  /\ rlStore = [w \in Windows |-> NoKey]
  /\ rlPc = [c \in Callers |-> "idle"]
  /\ rlNow = [c \in Callers |-> 0]
  /\ rlAllowed = <<>>
  /\ rlDenied = 0
  /\ userBudgetLimit = [u \in Users |-> IF u = 1 THEN 1000 ELSE NoLimit]
  /\ userBudgetUsed = [u \in Users |-> IF u = 1 THEN 995 ELSE 0]
  /\ userCredits = [u \in Users |-> 1000000000]
  /\ keyBudgetUsed = [k \in Keys |-> 0]
  /\ inflight = {}
  /\ nextId = 1
  /\ rejected = FALSE
  /\ queue = <<>>
  /\ lockTtl = 0
  /\ wPc = [w \in Workers |-> "idle"]
  /\ wLen = [w \in Workers |-> 0]
  /\ wBatch = [w \in Workers |-> <<>>]
  /\ wFailed = [w \in Workers |-> {}]
  /\ chRows = {}
  /\ popCount = [i \in RequestIds |-> 0]
  /\ userCharged = [i \in RequestIds |-> 0]
  /\ keyCharged = [i \in RequestIds |-> 0]
  /\ vkUserLimit = NoLimit
  /\ vkUserUsed = 0
  /\ vkCredits = 0
  /\ vkKeyLimit = NoLimit
  /\ vkKeyUsed = 0
  /\ vkRequest = NoRequest
  /\ vkResponse = NoResponse
  /\ vkContext = NoContext
  /\ vkForwarded = FALSE
  /\ rmClock = 1
  /\ rmRpm = NullRpm
  /\ rmTier = "STANDARD"
  /\ rmStore = [w \in Windows |-> NoKey]
  /\ rmCalls = [i \in DOMAIN ScenarioTimes |-> 0]
  /\ rmAdmitted = [i \in DOMAIN ScenarioTimes |-> 0]
  /\ rmRetryAfter = [i \in DOMAIN ScenarioTimes |-> {}]
  /\ rmErrors = 0
  /\ rmLast = Outcome(FALSE, 0, NoHeaders, 0, "none")
  /\ slAccount = FALSE
  /\ slIn = <<>>
  /\ slOut = <<>>
  /\ slUsage = NoUsage
  /\ slPhase = "open"
  /\ slRecord = NoRecord
  /\ slEnqueue = "none"
  /\ slQueue = <<>>
  /\ agBatch = <<>>
  /\ agUserUsed = [u \in Users |-> 0]
  /\ agKeyUsed = [k \in Keys |-> 0]
  /\ agUsers = {}
  /\ agKeys = {}
  /\ agRows = {}
  /\ agSettled = FALSE
  /\ mcClock = 0
  /\ mcCache = [m \in ResolvedModels |-> NoEntry]
  /\ mcQueries = [m \in ResolvedModels |-> 0]
  /\ mcHits = [m \in ResolvedModels |-> 0]
  /\ mcLast = [model |-> "", result |-> JsNull, queried |-> FALSE]
  /\ sdPc = "serving"
  /\ sdSignal = ""
  /\ sdTimer = TRUE
  /\ sdPoolOpen = TRUE
  /\ sdRedisOpen = TRUE
  /\ sdQueue = <<>>
  /\ sdNextId = 1
  /\ sdSettled = {}
  /\ sdAtSignal = {}
  /\ utStatus = 200
  /\ utResponse = NoResponseBody
  /\ utResult = NoResult
  /\ rcLimit = 1
  /\ rcNow = WINDOW_SIZE_SECONDS
  /\ rcPrev = 0
  /\ rcCurr = 0
  /\ rcStore = [w \in Windows |-> NoKey]
  /\ rcResult = NoRcResult
  /\ dqQueue = <<>>
  /\ dqNextId = 1
  /\ dqEnqueued = 0
  /\ dqLock = FALSE
  /\ dqPc = "idle"
  /\ dqLen = 0
  /\ dqAtLen = <<>>
  /\ dqDuring = {}
  /\ dqBatch = <<>>
  /\ dqTicks = 0

SpecRL == InitRL /\ [][RLNext]_vars

SpecSQ == InitSQ /\ [][SQNext]_vars

SpecST == InitST /\ [][STNext]_vars

SpecVK == InitVK /\ [][VKNext]_vars

SpecRM == InitRM /\ [][RMNext]_vars

SpecSL == InitSL /\ [][SLNext]_vars

SpecAG == InitAG /\ [][AGNext]_vars

SpecMC == InitMC /\ [][MCNext]_vars

SpecSD == InitSD /\ [][SDNext]_vars

SpecUT == InitUT /\ [][UTNext]_vars

SpecRC == InitRC /\ [][RCNext]_vars

SpecDQ == InitDQ /\ [][DQNext]_vars

SpecTM == InitTM /\ [][TMNext]_vars

(***************************************************************************)
(* Rate limiter: properties                                                *)
(***************************************************************************)
\* number of calls that returned allowed=true with a timestamp in lo..hi
AllowedIn(lo, hi) ==
  Cardinality({i \in DOMAIN rlAllowed : lo <= rlAllowed[i] /\ rlAllowed[i] <= hi})

\* the fullest intervals of 60 consecutive seconds start at an allowed call
AllowedInWindowFrom(t) == AllowedIn(t, t + WINDOW_SIZE_SECONDS - 1)

\* C1 (as claimed): in any interval of 60 consecutive seconds at most L + 1
\* calls return allowed=true
C1_AtMostLimitPlusOne ==
  \A i \in DOMAIN rlAllowed :
    AllowedInWindowFrom(rlAllowed[i]) <= rlLimit + 1

\* C1 (amended): in any interval of 60 consecutive seconds at most 2 * L calls
\* return allowed=true, each call counted at the clock reading it took and
\* its Redis commands completing within MaxLatency of that reading
C1_AtMostTwiceLimit ==
  \A i \in DOMAIN rlAllowed :
    AllowedInWindowFrom(rlAllowed[i]) <= 2 * rlLimit

\* an interval of 60 seconds holds more than L + 1 allowed calls, and a call
\* was rejected and rolled back
C1_Witness ==
  /\ rlDenied > 0
  /\ \E i \in DOMAIN rlAllowed :
       AllowedInWindowFrom(rlAllowed[i]) > rlLimit + 1

(***************************************************************************)
(* Admission and spend queue: properties                                   *)
(***************************************************************************)
\* C2 (as claimed): budget_used never exceeds a budget_limit that is set,
\* neither for an account nor for a key
C2_BudgetWithinLimit ==
  /\ \A u \in Users :
       userBudgetLimit[u] # NoLimit => userBudgetUsed[u] <= userBudgetLimit[u]
  /\ \A k \in Keys :
       KeyBudgetLimit(k) # NoLimit => keyBudgetUsed[k] <= KeyBudgetLimit(k)

\* C2 (amended): a request is admitted only while the account's and the key's
\* budget_used are below the limits that are set
C2_AdmittedBelowLimit ==
  [][\A r \in inflight' \ inflight :
       /\ \/ userBudgetLimit[r.userId] = NoLimit
          \/ userBudgetUsed[r.userId] < userBudgetLimit[r.userId]
       /\ \/ KeyBudgetLimit(r.virtualKeyId) = NoLimit
          \/ keyBudgetUsed[r.virtualKeyId] < KeyBudgetLimit(r.virtualKeyId)]_vars

\* settlement has taken an account over its limit, after which a request was
\* refused
C2_Witness ==
  /\ userBudgetLimit[1] # NoLimit
  /\ userBudgetUsed[1] > userBudgetLimit[1]
  /\ rejected

\* C3: every record is popped at most once and is part of at most one applied
\* account sum and at most one applied key sum
C3_ChargedAtMostOnce ==
  \A i \in RequestIds :
    /\ popCount[i] <= 1
    /\ userCharged[i] <= 1
    /\ keyCharged[i] <= 1

\* two workers drain at the same time, one of them holds a popped batch, and a
\* record has been charged to its account and its key
C3_Witness ==
  /\ \E w1, w2 \in Workers :
       /\ w1 # w2
       /\ wPc[w1] = "write"
       /\ wPc[w2] # "idle"
  /\ \E i \in RequestIds :
       /\ popCount[i] = 1
       /\ userCharged[i] = 1
       /\ keyCharged[i] = 1

\* C4: at most one worker is between taking the lease and releasing it
C4_SingleDrain ==
  Cardinality({w \in Workers : wPc[w] # "idle"}) <= 1

\* C5: when a settlement write of a batch has failed, the records of the batch
\* are still in the queue
C5_FailedBatchStaysQueued ==
  \A w \in Workers :
    (wPc[w] = "release" /\ wFailed[w] # {}) =>
      \A i \in DOMAIN wBatch[w] :
        \E j \in DOMAIN queue : queue[j].id = wBatch[w][i].id

\* the cost of a record as the claims state it
ClaimedCost(r) ==
  r.input_tokens * r.pricing.inputCostPerToken
    + r.output_tokens * r.pricing.outputCostPerToken

RECURSIVE ClaimedSum(_, _, _)
\* the sum of the claimed costs of the records of one owner in a batch
ClaimedSum(batch, field, owner) ==
  IF batch = <<>> THEN 0
  ELSE (IF Head(batch)[field] = owner THEN ClaimedCost(Head(batch)) ELSE 0)
         + ClaimedSum(Tail(batch), field, owner)

\* the records of one owner in a batch all have one of the given spend modes
OwnerModes(batch, field, owner, modes) ==
  \A i \in DOMAIN batch : batch[i][field] = owner => batch[i].mode \in modes

\* worker w completes the settlement writes of its batch in this step
Settles(w) == wPc[w] = "write" /\ wPc'[w] = "release"

\* C6: a settlement whose writes succeed adds the cost of the regular and
\* overflow records to account.budget_used and key.budget_used and takes
\* cost * 2,000,000 from account.credits
C6_SettlementAmounts ==
  [][\A w \in Workers :
       (Settles(w) /\ wFailed'[w] = {}) =>
         /\ \A u \in Users :
              OwnerModes(wBatch[w], "userId", u, {"regular", "subscription_overflow"}) =>
                /\ userBudgetUsed'[u] - userBudgetUsed[u]
                     = ClaimedSum(wBatch[w], "userId", u)
                /\ (userCredits[u] - userCredits'[u]) * MoneyScale
                     = ClaimedSum(wBatch[w], "userId", u) * CREDIT_MULTIPLIER
         /\ \A k \in Keys :
              OwnerModes(wBatch[w], "virtualKeyId", k, {"regular", "subscription_overflow"}) =>
                keyBudgetUsed'[k] - keyBudgetUsed[k]
                  = ClaimedSum(wBatch[w], "virtualKeyId", k)]_vars

\* a regular record of cost 0.3 is settled: the account goes from 99.5 to 99.8,
\* its credits drop by 600,000 and the key rises by 0.3
C6_Witness ==
  /\ userBudgetUsed[1] = 998
  /\ userCredits[1] = 1000000000 - 600000
  /\ keyBudgetUsed[1] = 3
  /\ \E i \in RequestIds : userCharged[i] = 1 /\ keyCharged[i] = 1

\* C7: the settlement of records produced under spend mode subscription leaves
\* account.budget_used and account.credits as they were
C7_SubscriptionLeavesAccount ==
  [][\A w \in Workers :
       Settles(w) =>
         \A u \in Users :
           OwnerModes(wBatch[w], "userId", u, {"subscription"}) =>
             /\ userBudgetUsed'[u] = userBudgetUsed[u]
             /\ userCredits'[u] = userCredits[u]]_vars


(***************************************************************************)
(* Stream transform: properties                                            *)
(***************************************************************************)
NoDoneLine == \A i \in DOMAIN stIn : stIn[i].kind # "done"

EndsWith(out, tail) ==
  /\ Len(out) >= Len(tail)
  /\ SubSeq(out, Len(out) - Len(tail) + 1, Len(out)) = tail

\* C8: when the upstream ends without a [DONE] line, the events written
\* downstream for a started message still end with a content_block_stop for
\* every open block, then message_delta, then message_stop
C8_EofClosesStream ==
  (stEnded /\ NoDoneLine /\ stState.hasStarted = "true")
    => EndsWith(stOut, DoneOutput(stState))

\* a chunk that only carries text
IsTextLine(line) ==
  /\ line.kind = "json"
  /\ line.hasChoice
  /\ line.content # <<>>
  /\ line.tool_calls = <<>>
  /\ line.finish_reason = ""

\* a chunk that only carries finish_reason "stop"
IsStopLine(line) ==
  /\ line.kind = "json"
  /\ line.hasChoice
  /\ line.content = <<>>
  /\ line.tool_calls = <<>>
  /\ line.finish_reason = "stop"

\* n >= 1 text chunks, then finish_reason "stop", then [DONE]
TextOnlyStream(lines) ==
  /\ Len(lines) >= 3
  /\ lines[Len(lines)].kind = "done"
  /\ IsStopLine(lines[Len(lines) - 1])
  /\ \A i \in 1..(Len(lines) - 2) : IsTextLine(lines[i])

\* what the statement of C9 fixes of an event
EventSig(e) ==
  CASE e.type = "content_block_start" -> <<e.type, e.block, e.index>>
    [] e.type = "content_block_delta" /\ e.delta = "text_delta" ->
         <<e.type, e.delta, e.index, e.text>>
    [] e.type = "content_block_delta" /\ e.delta # "text_delta" ->
         <<e.type, e.delta, e.index, e.partial_json>>
    [] e.type = "content_block_stop" -> <<e.type, e.index>>
    [] e.type = "message_delta" -> <<e.type, e.stop_reason>>
    [] OTHER -> <<e.type>>

TextOnlyExpected(lines) ==
  <<  <<"message_start">>, <<"content_block_start", "text", 0>>  >>
  \o [i \in 1..(Len(lines) - 2) |->
        <<"content_block_delta", "text_delta", 0, lines[i].content>>]
  \o <<  <<"content_block_stop", 0>>, <<"message_delta", "end_turn">>,
         <<"message_stop">>  >>

\* C9: for n >= 1 text chunks, a finish_reason "stop" chunk and [DONE], the
\* events are exactly message_start, content_block_start (text, index 0), one
\* text_delta per chunk in order, content_block_stop (0), message_delta
\* (end_turn), message_stop
C9_TextOnlySequence ==
  TextOnlyStream(stIn)
    => [i \in 1..Len(stOut) |-> EventSig(stOut[i])] = TextOnlyExpected(stIn)

C9_Witness ==
  /\ TextOnlyStream(stIn)
  /\ Len(stIn) = 4
  /\ stIn[1].content # stIn[2].content
  /\ Len(stOut) = 7

\* the finish_reason of the last chunk that carried one
LastFinishReason(lines) ==
  LET seen == {i \in DOMAIN lines :
                 lines[i].kind = "json" /\ lines[i].finish_reason # ""}
  IN  IF seen = {} THEN ""
      ELSE lines[CHOOSE i \in seen : \A j \in seen : j <= i].finish_reason

\* the stop_reason table of the statement
ClaimedStopReason(finishReason) ==
  IF finishReason = "length" THEN "max_tokens"
  ELSE IF finishReason \in {"tool_calls", "function_call"} THEN "tool_use"
  ELSE "end_turn"

ClosingSequence(out, st, lines) ==
  LET t == IF st.contentBlockStarted THEN 1 ELSE 0
      n == Cardinality(st.toolCallsStarted)
  IN  /\ Len(out) = t + n + 2
      /\ st.contentBlockStarted => out[1] = BlockStopEvent(st.currentContentIndex)
      /\ \A j \in 1..n : out[t + j].type = "content_block_stop"
      /\ {out[t + j].index : j \in 1..n} = st.toolCallsStarted
      /\ out[t + n + 1] = MessageDeltaEvent(ClaimedStopReason(LastFinishReason(lines)),
                                           st.inputTokens, st.outputTokens)
      /\ out[t + n + 2] = MessageStopEvent

\* C10: a [DONE] line emits a content_block_stop for the open text block if
\* any, one content_block_stop for every started tool block, a message_delta
\* with the mapped stop_reason of the last finish_reason seen and the usage
\* totals, then message_stop, and nothing else
C10_DoneClosingSequence ==
  [][(Len(stIn') = Len(stIn) + 1 /\ stIn'[Len(stIn')].kind = "done")
       => ClosingSequence(stLast', InitStreamState(stState), stIn)]_vars

C10_Witness ==
  /\ stIn # <<>>
  /\ stIn[Len(stIn)].kind = "done"
  /\ stState.contentBlockStarted
  /\ stState.toolCallsStarted # {}
  /\ stState.finishReason = "tool_calls"
  /\ Len(stLast) = 4

RECURSIVE ContentText(_)
\* the delta.content of the input chunks, concatenated in order
ContentText(lines) ==
  IF lines = <<>> THEN <<>>
  ELSE (IF Head(lines).kind = "json" /\ Head(lines).hasChoice
        THEN Head(lines).content ELSE <<>>)
       \o ContentText(Tail(lines))

RECURSIVE DeltaText(_)
\* the text of the text_delta events, concatenated in order
DeltaText(events) ==
  IF events = <<>> THEN <<>>
  ELSE (IF Head(events).type = "content_block_delta"
           /\ Head(events).delta = "text_delta"
        THEN Head(events).text ELSE <<>>)
       \o DeltaText(Tail(events))

\* C11: the concatenated text of all text_delta events emitted equals the
\* concatenated delta.content of the input chunks, in the same order
C11_TextRoundTrip == DeltaText(stOut) = ContentText(stIn)

C11_Witness ==
  /\ Len(stIn) = 4
  /\ ContentText(stIn) = <<"l", "l", "o", "H", "e">>
  /\ stState.toolCallsStarted # {}
  /\ \E i \in DOMAIN stIn : stIn[i].kind = "done"
  /\ DeltaText(stOut) = <<"l", "l", "o", "H", "e">>

(***************************************************************************)
(* Key validation: properties                                              *)
(***************************************************************************)
\* a request on a non-public path whose body names a model
PlainRequest ==
  /\ ~vkRequest.public
  /\ ~vkRequest.malformed
  /\ vkRequest.model # ""

\* the request was refused with this status and message, nothing forwarded
RefusedWith(status, message) ==
  /\ vkResponse = [status |-> status, message |-> message]
  /\ ~vkForwarded

\* C12: a request with a regular key is rejected with 402 and not forwarded
\* when the account budget is set and used up (Account quota exceeded) or the
\* key budget is set and used up (API key quota exceeded); otherwise the
\* budget checks admit it
C12_RegularKeyQuota402 ==
  (PlainRequest /\ vkRequest.bearer = "sk-regular")
    => IF vkUserLimit # NoLimit /\ vkUserUsed >= vkUserLimit
       THEN RefusedWith(402, "Account quota exceeded")
       ELSE IF vkKeyLimit # NoLimit /\ vkKeyUsed >= vkKeyLimit
       THEN RefusedWith(402, "API key quota exceeded")
       ELSE vkResponse.status \notin {401, 402}

\* the token's hash is the hash of no stored key, or of an inactive one
UnknownOrInactive(token) ==
  \A k \in StoredKeys : k.api_key_hash = HashApiKey(token) => ~k.active

\* C13: a Bearer token that hashes to no stored key, or to a key with
\* active = false, is rejected with 401 Invalid API key provided; no request
\* context is set and the request is not forwarded
C13_InvalidKey401 ==
  (PlainRequest /\ vkRequest.bearer # "" /\ UnknownOrInactive(vkRequest.bearer))
    => /\ RefusedWith(401, "Invalid API key provided")
       /\ vkContext = NoContext

\* a request without Bearer token on a non-public path
AnonymousRequest == PlainRequest /\ vkRequest.bearer = ""

\* C14: a request without Bearer token on a non-public path is admitted, with
\* a context that has no account, exactly when its model is in the free
\* allow-list and a deployment resolves; a model outside the allow-list is
\* rejected with 403 and not forwarded
C14_AnonymousFreeModels ==
  AnonymousRequest
    => /\ (vkForwarded /\ vkContext.isSet)
            <=> (/\ vkRequest.model \in {"qwen/qwen-2.5-7b-instruct", "free/retired"}
                 /\ vkRequest.model \in DeployedModels)
       /\ vkContext.isSet => vkContext.virtualKeyWithUser = NoVirtualKey
       /\ vkRequest.model \notin {"qwen/qwen-2.5-7b-instruct", "free/retired"}
            => (vkResponse.status = 403 /\ ~vkForwarded /\ ~vkContext.isSet)

C14_Witness ==
  /\ AnonymousRequest
  /\ vkRequest.model = "qwen/qwen-2.5-7b-instruct"
  /\ vkForwarded
  /\ vkContext.isSet
  /\ vkContext.virtualKeyWithUser = NoVirtualKey
  /\ vkResponse = NoResponse

\* the spend_mode of the request context; the property is undefined when the
\* context does not carry it
ContextSpendMode ==
  IF vkContext.isSet /\ "spend_mode" \in DOMAIN vkContext
  THEN vkContext.spend_mode ELSE "undefined"

\* C15: for a subscription key, the request is admitted with spend_mode
\* subscription when key.budget_used < key.budget_limit, else admitted with
\* spend_mode subscription_overflow when account.credits > 0, else rejected
\* with 402 Subscription quota exceeded
C15_SubscriptionAdmission ==
  (/\ PlainRequest
   /\ vkRequest.bearer = "sk-subscription"
   /\ vkRequest.model \in DeployedModels
   /\ vkKeyLimit # NoLimit)
    => IF vkKeyUsed < vkKeyLimit
       THEN vkForwarded /\ ContextSpendMode = "subscription"
       ELSE IF vkCredits > 0
       THEN vkForwarded /\ ContextSpendMode = "subscription_overflow"
       ELSE RefusedWith(402, "Subscription quota exceeded")

(***************************************************************************)
(* Rate limiter middleware: properties                                     *)
(***************************************************************************)
\* a standard account with rpm limit 10 whose Redis calls have all succeeded
TenPerMinute ==
  /\ rmRpm = 10
  /\ rmTier # ENTERPRISE_TIER
  /\ rmErrors = 0

\* C16: with rpm limit 10 and empty counters, 10 requests at t = 0 are all
\* admitted; a further request at t = 10 is rejected with 429 and a
\* Retry-After between 46 and 50; a new request at t = 61 is admitted
C16_TenThenRejectThenAdmit ==
  TenPerMinute =>
    /\ rmCalls[1] <= 10 => rmAdmitted[1] = rmCalls[1]
    /\ (rmCalls[1] = 10 /\ rmCalls[2] >= 1)
         => /\ rmAdmitted[2] = 0
            /\ rmRetryAfter[2] # {}
            /\ \A r \in rmRetryAfter[2] : r >= 46 /\ r <= 50
            /\ (rmClock = 2 /\ rmLast.headers # NoHeaders) => rmLast.status = 429
    /\ (rmCalls[1] = 10 /\ rmCalls[2] >= 1 /\ rmCalls[3] >= 1)
         => rmAdmitted[3] >= 1

C16_Witness ==
  /\ TenPerMinute
  /\ ScenarioTimes = <<0, 10, 61>>
  /\ rmCalls = <<10, 1, 1>>
  /\ rmAdmitted = <<10, 0, 1>>
  /\ rmRetryAfter[2] = {50}
  /\ rmLast.forwarded

\* C17: when a Redis operation of the rate limiter throws, the request is
\* admitted: next() is called and the response is neither 429 nor 5xx
C17_FailOpen ==
  rmLast.failure # "none"
    => /\ rmLast.forwarded
       /\ rmLast.status # 429
       /\ rmLast.status < 500

C17_Witness ==
  /\ rmLast.failure = "decr"
  /\ rmLast.forwarded
  /\ rmErrors = 1
  /\ \E i \in DOMAIN ScenarioTimes : rmRetryAfter[i] # {}

(***************************************************************************)
(* Spend logger: properties                                                *)
(***************************************************************************)
RECURSIVE Flatten(_)
\* the lines of the chunks, in order
Flatten(chunks) ==
  IF chunks = <<>> THEN <<>> ELSE Head(chunks) \o Flatten(Tail(chunks))

\* a data line whose JSON object has a usage
UsageBearing(line) ==
  line.prefix = "data: " /\ line.body = "json" /\ line.usage # NoUsage

\* the usage of the last usage-bearing data line, if any
LastUsage(lines) ==
  LET bearing == {i \in DOMAIN lines : UsageBearing(lines[i])}
  IN  IF bearing = {} THEN NoUsage
      ELSE lines[CHOOSE i \in bearing : \A j \in bearing : j <= i].usage

\* C18: when several chunks of an SSE response carry a usage object, the
\* usage record emitted at stream end holds the usage of the last
\* usage-bearing data line of the stream
C18_LastUsageWins ==
  slPhase # "open"
    => /\ slRecord.produced <=> LastUsage(Flatten(slIn)) # NoUsage
       /\ slRecord.produced => slRecord.rawUsage = LastUsage(Flatten(slIn))

C18_Witness ==
  /\ slPhase # "open"
  /\ Len(slIn) = 3
  /\ UsageBearing(slIn[1][1])
  /\ UsageBearing(slIn[2][1])
  /\ slIn[1][1].usage # slIn[2][1].usage
  /\ ~UsageBearing(slIn[3][1])
  /\ slRecord.produced
  /\ slRecord.rawUsage = slIn[2][1].usage

\* C19: every usage record produced for a streamed request has been pushed
\* to spend:queue before the response body has fully drained to the caller
C19_EnqueuedBeforeDrained ==
  (slPhase = "closed" /\ slRecord.produced /\ slAccount)
    => \E i \in DOMAIN slQueue : slQueue[i] = slRecord

\* C20: the chunks delivered to the caller are the chunks received from the
\* upstream side, the same chunks in the same order, unmodified, whether or
\* not a chunk contains usage or fails to parse
C20_ChunksPassThrough == slOut = slIn

C20_Witness ==
  /\ Len(slIn) = 3
  /\ slOut = slIn
  /\ \E i \in DOMAIN slIn : slIn[i][1].body = "garbage"
  /\ \E i \in DOMAIN slIn : UsageBearing(slIn[i][1])
  /\ \E i \in DOMAIN slIn : Len(slIn[i]) = 3

\* C21: a request admitted without an API key never causes a record to be
\* pushed to spend:queue, whatever usage its response reports
C21_AnonymousNeverEnqueued ==
  ~slAccount => (slQueue = <<>> /\ slEnqueue = "none")

C21_Witness ==
  /\ ~slAccount
  /\ slPhase = "closed"
  /\ slRecord.produced
  /\ slUsage = <<5, 7>>
  /\ slQueue = <<>>

(***************************************************************************)
(* Aggregation of a batch: properties                                      *)
(***************************************************************************)
\* the cost of the record is exactly zero
ZeroCost(r) ==
  r.input_tokens * r.pricing.inputCostPerToken
    + r.output_tokens * r.pricing.outputCostPerToken = 0

\* the records of the batch charged to this account, or to this key
RecordsOf(field, owner) ==
  {i \in DOMAIN agBatch : agBatch[i][field] = owner}

\* C22: a record whose cost is exactly zero produces no analytical row and
\* adds nothing to the account and key sums of its batch; a batch made only
\* of zero-cost records leaves every budget counter unchanged
C22_ZeroCostDiscarded ==
  agSettled =>
    /\ \A i \in DOMAIN agBatch : ZeroCost(agBatch[i]) => agBatch[i].id \notin agRows
    /\ \A u \in Users :
         (\A i \in RecordsOf("userId", u) : ZeroCost(agBatch[i]))
           => (u \notin agUsers /\ agUserUsed[u] = 0)
    /\ \A k \in Keys :
         (\A i \in RecordsOf("virtualKeyId", k) : ZeroCost(agBatch[i]))
           => (k \notin agKeys /\ agKeyUsed[k] = 0)
    /\ (\A i \in DOMAIN agBatch : ZeroCost(agBatch[i]))
         => /\ agRows = {}
            /\ agUserUsed = [u \in Users |-> 0]
            /\ agKeyUsed = [k \in Keys |-> 0]

C22_Witness ==
  /\ agSettled
  /\ Len(agBatch) = 2
  /\ agBatch[1].input_tokens = 0 /\ agBatch[1].output_tokens = 0
  /\ agBatch[1].pricing.inputCostPerToken = 2
  /\ agBatch[2].input_tokens = 1 /\ agBatch[2].output_tokens = 1
  /\ agBatch[2].pricing.inputCostPerToken = 0
  /\ agBatch[2].pricing.outputCostPerToken = 0
  /\ agRows = {}
  /\ agUsers = {}

NegativeEntryLive(model) ==
  /\ mcCache[model].live
  /\ mcCache[model].json = "null"
  /\ mcClock < mcCache[model].expireAt

\* C24: after a resolve of m found no active deployment, every further
\* resolve of m within the next 5 minutes returns None from the cache
\* without querying the persistent store
C24_NegativeResultCached ==
  [][\A m \in ResolvedModels :
       (NegativeEntryLive(m) /\ mcLast' # mcLast /\ mcLast'.model = m)
         => (mcLast'.result = JsNull /\ mcQueries'[m] = mcQueries[m])]_vars

(***************************************************************************)
(* Graceful shutdown: properties                                           *)
(***************************************************************************)
\* C25: on SIGTERM or SIGINT the queue is drained once before the pool and
\* the KV client are closed: the records that were queued when the signal
\* arrived are settled before the process exits
C25_QueuedAtSignalSettled ==
  sdPc = "exited" => sdAtSignal \subseteq sdSettled

(***************************************************************************)
(* Unary response transform: properties                                    *)
(***************************************************************************)
\* the stop_reason table of the specification
StopReasonTable(finishReason) ==
  IF finishReason.type = "string" /\ finishReason.value = "length"
  THEN "max_tokens"
  ELSE IF /\ finishReason.type = "string"
          /\ finishReason.value \in {"tool_calls", "function_call"}
  THEN "tool_use"
  ELSE "end_turn"

\* what the stream state holds after a chunk with this finish_reason: only a
\* truthy value is tracked (stream transform, lines 391-393)
TrackedFinishReason(finishReason) ==
  IF TruthyField(finishReason) THEN finishReason.value ELSE ""

\* C26: the unary and the streaming transform map finish_reason to
\* stop_reason by the same total function: stop and content_filter to
\* end_turn, length to max_tokens, tool_calls and function_call to tool_use,
\* everything else, absent and null included, to end_turn
C26_SameStopReasonMapping ==
  /\ \A finishReason \in FinishReasons :
       /\ UnaryMapFinishReason(finishReason) = StopReasonTable(finishReason)
       /\ MapFinishReason(TrackedFinishReason(finishReason))
            = StopReasonTable(finishReason)
  /\ utResult.kind = "message" =>
       utResult.stop_reason = StopReasonTable(utResponse.choices[1].finish_reason)

C26_Witness ==
  /\ utResult.kind = "message"
  /\ utResponse.choices[1].finish_reason = JsStr("function_call")
  /\ utResult.stop_reason = "tool_use"

\* C27 as stated: the translation's input_tokens and output_tokens are the
\* response's prompt_tokens and completion_tokens, and the cache counts are
\* carried exactly when the response provides them
C27_UsageCopied ==
  utResult.kind = "message" =>
    /\ utResult.usage.input_tokens = utResponse.usage.prompt_tokens
    /\ utResult.usage.output_tokens = utResponse.usage.completion_tokens
    /\ utResult.usage.cache_read_input_tokens
         = utResponse.usage.cache_read_input_tokens
    /\ utResult.usage.cache_creation_input_tokens
         = utResponse.usage.cache_creation_input_tokens

\* C27 (amended): when the response has a usage object the two counts are
\* copied and each cache count is carried exactly when provided; when the
\* response has no usage object both counts are 0 and no cache count is
\* carried
C27_UsageCopiedOrZero ==
  utResult.kind = "message" =>
    IF utResponse.usage.present
    THEN /\ utResult.usage.input_tokens = utResponse.usage.prompt_tokens
         /\ utResult.usage.output_tokens = utResponse.usage.completion_tokens
         /\ utResult.usage.cache_read_input_tokens
              = utResponse.usage.cache_read_input_tokens
         /\ utResult.usage.cache_creation_input_tokens
              = utResponse.usage.cache_creation_input_tokens
    ELSE /\ utResult.usage.input_tokens = 0
         /\ utResult.usage.output_tokens = 0
         /\ utResult.usage.cache_read_input_tokens = UndefinedNumber
         /\ utResult.usage.cache_creation_input_tokens = UndefinedNumber

C27_Witness ==
  /\ utResult.kind = "message"
  /\ utResponse.usage.present
  /\ utResult.usage.input_tokens = 7
  /\ utResult.usage.output_tokens = 9
  /\ utResult.usage.cache_read_input_tokens = 3
  /\ utResult.usage.cache_creation_input_tokens = UndefinedNumber

\* the arguments that are valid JSON, and the input the specification asks for
ValidJsonArguments == {"{\"city\":\"NYC\"}", "{}"}

ExpectedInput(arguments) ==
  IF arguments \in ValidJsonArguments THEN JsonParseObject(arguments) ELSE {}

\* C28: the content array of a 2xx translation is one text block when the
\* message has (non-empty) string content, followed by one tool_use block per
\* tool call in order, with id and name copied and input the parsed
\* arguments or {} when they are not valid JSON; exactly one empty text
\* block when there is neither; never empty
C28_ContentBlocks ==
  utResult.kind = "message" =>
    LET message == utResponse.choices[1]
        hasText == message.content.type = "string" /\ message.content.value # ""
        offset == IF hasText THEN 1 ELSE 0
        n == Len(message.tool_calls)
        content == utResult.content
    IN  /\ Len(content) >= 1
        /\ IF ~hasText /\ n = 0
           THEN /\ Len(content) = 1
                /\ content[1].type = "text"
                /\ content[1].text = ""
           ELSE /\ Len(content) = offset + n
                /\ hasText => /\ content[1].type = "text"
                              /\ content[1].text = message.content.value
                /\ \A i \in 1..n :
                     /\ content[offset + i].type = "tool_use"
                     /\ content[offset + i].id = message.tool_calls[i].id
                     /\ content[offset + i].name = message.tool_calls[i].name
                     /\ content[offset + i].input
                          = ExpectedInput(message.tool_calls[i].arguments)

C28_Witness ==
  /\ utResult.kind = "message"
  /\ Len(utResult.content) = 3
  /\ utResult.content[1] = TextBlock("Hello")
  /\ utResult.content[2] = ToolUseBlock("c1", "get_weather", {<<"city", "NYC">>})
  /\ utResult.content[3] = ToolUseBlock("c3", "search", {})

(***************************************************************************)
(* checkAndIncrementRateLimit: properties                                  *)
(***************************************************************************)
\* floor(prev * (1 - progress) + curr) in exact arithmetic, curr counting
\* this call
ExactEstimate(prev, curr, t) ==
  (curr + 1)
    + (prev * (WINDOW_SIZE_SECONDS - (t % WINDOW_SIZE_SECONDS)))
        \div WINDOW_SIZE_SECONDS

\* C29: checkAndIncrementRateLimit returns allowed = (estimated <= limit)
\* with estimated = floor(prev * (1 - progress) + curr), remaining =
\* max(0, limit - estimated) when allowed and 0 otherwise, and resetAt =
\* (floor(now / 60) + 1) * 60, which is 1 to 60 seconds in the future
C29_EstimateRemainingReset ==
  rcResult.called =>
    LET estimated == ExactEstimate(rcPrev, rcCurr, rcNow)
    IN  /\ rcResult.allowed = (estimated <= rcLimit)
        /\ rcResult.remaining
             = IF rcResult.allowed THEN Max(0, rcLimit - estimated) ELSE 0
        /\ rcResult.resetAt
             = ((rcNow \div WINDOW_SIZE_SECONDS) + 1) * WINDOW_SIZE_SECONDS
        /\ rcResult.resetAt - rcNow \in 1..WINDOW_SIZE_SECONDS

(***************************************************************************)
(* Draining the queue: properties                                          *)
(***************************************************************************)
\* the tick has popped its batch
DqPopped == dqPc = "settle" /\ dqLen > 0

\* C30: a tick holding the lease removes min(500, L) records, L the length it
\* read at its start; they are the oldest records, in enqueue order; the
\* records enqueued while the tick runs, after that read, stay queued
C30_OldestBatchRemoved ==
  DqPopped =>
    LET removed == SeqToSet(dqBatch)
        left == SeqToSet(dqQueue)
        atLen == SeqToSet(dqAtLen)
    IN  /\ Len(dqBatch) = Min(500, dqLen)
        /\ Cardinality(removed) = Len(dqBatch)
        /\ removed \subseteq atLen
        /\ \A r \in removed : \A q \in (atLen \cup dqDuring) \ removed : r < q
        /\ \A i \in 1..(Len(dqBatch) - 1) : dqBatch[i] < dqBatch[i + 1]
        /\ left = (atLen \cup dqDuring) \ removed
        /\ dqDuring \subseteq left

C30_Witness ==
  /\ DqPopped
  /\ dqLen = 501
  /\ Len(dqBatch) = 500
  /\ dqBatch[1] = 1
  /\ Cardinality(dqDuring) = 2
  /\ Len(dqQueue) = 3

(***************************************************************************)
(* Stream transform: tool calls, usage, skipped lines, event order         *)
(***************************************************************************)
\* the step transforms this line
Feeds(line) == stIn' = Append(stIn, line)

\* C31: a tool-call delta with both an id and a function name first closes
\* the text block if one is open, then starts a tool_use block at index
\* current_content_index + 1 + toolCall.index; every arguments fragment of
\* the tool call is an input_json_delta at that same index
C31_ToolCallStartClosesText ==
  [][\A line \in StreamLines :
       (Feeds(line) /\ line.kind = "json" /\ line.hasChoice) =>
         \A k \in 1..Len(line.tool_calls) :
           LET toolCall == line.tool_calls[k]
               st == InitStreamState(stState)
               index == st.currentContentIndex + 1 + toolCall.index
           IN  /\ (toolCall.id # "" /\ toolCall.name # "") =>
                    \E j \in 1..Len(stLast') :
                      /\ stLast'[j] = ToolUseBlockStartEvent(index, toolCall.id,
                                                            toolCall.name)
                      /\ st.contentBlockStarted =>
                           \E i \in 1..(j - 1) :
                             stLast'[i] = BlockStopEvent(st.currentContentIndex)
               /\ toolCall.arguments # "" =>
                    \E j \in 1..Len(stLast') :
                      stLast'[j] = InputJsonDeltaEvent(index, toolCall.arguments)]_vars


\* the usage of the last line of the input that carries one, <<0, 0>> if none
RECURSIVE LastChunkUsage(_)
LastChunkUsage(lines) ==
  IF lines = <<>> THEN <<0, 0>>
  ELSE LET line == lines[Len(lines)]
       IN  IF line.kind = "json" /\ line.usage # NoUsage THEN line.usage
           ELSE LastChunkUsage(SubSeq(lines, 1, Len(lines) - 1))

\* C32: a chunk with a usage object replaces the running input and output
\* token totals by its prompt_tokens and completion_tokens, also when a value
\* is 0, and the message_delta of [DONE] reports the totals of the last
\* chunk that carried usage
C32_UsageReplacesTotals ==
  [][\A line \in StreamLines :
       Feeds(line) =>
         /\ (line.kind = "json" /\ line.usage # NoUsage) =>
              /\ stState'.inputTokens = line.usage[1]
              /\ stState'.outputTokens = line.usage[2]
         /\ line.kind = "done" =>
              \E j \in 1..Len(stLast') :
                /\ stLast'[j].type = "message_delta"
                /\ stLast'[j].input_tokens = LastChunkUsage(stIn)[1]
                /\ stLast'[j].output_tokens = LastChunkUsage(stIn)[2]]_vars


\* C33 as stated: a line that is not valid JSON, or that lacks the "data: "
\* prefix, is skipped: it produces no event and leaves every field of the
\* stream state as it was (the fields of a fresh state object being those
\* set by initStreamState)
C33_SkippedLines ==
  [][\A line \in StreamLines :
       (Feeds(line) /\ (line.kind = "garbage"
                          \/ (line.kind = "json" /\ ~line.prefixed))) =>
         /\ stLast' = <<>>
         /\ stState' = InitStreamState(stState)]_vars

\* C33 (amended): a line that is not valid JSON is skipped, with no event
\* and the stream state as it was; a line without the "data: " prefix whose
\* text is valid JSON is transformed exactly as the same line with the prefix
C33_NonJsonSkippedBareJsonParsed ==
  [][\A line \in StreamLines :
       Feeds(line) =>
         /\ line.kind = "garbage" =>
              /\ stLast' = <<>>
              /\ stState' = InitStreamState(stState)
         /\ (line.kind = "json" /\ ~line.prefixed) =>
              LET prefixed == [line EXCEPT !.prefixed = TRUE]
              IN  /\ prefixed \in StreamLines
                  /\ stLast' = ChunkStep(InitStreamState(stState), prefixed).out
                  /\ stState' = ChunkStep(InitStreamState(stState), prefixed).state
                  /\ stLast' # <<>>]_vars

C33_Witness ==
  /\ Len(stIn) = 2
  /\ stIn[1].kind = "json" /\ ~stIn[1].prefixed
  /\ stIn[2].kind = "garbage"
  /\ Len(stOut) = 3
  /\ stOut[3].type = "content_block_delta"
  /\ stLast = <<>>
  /\ stState.contentBlockStarted

\* the positions of the output holding an event of this type
EventsOfType(out, type) == {i \in 1..Len(out) : out[i].type = type}

\* C36: over any sequence of lines with one state object message_start is
\* emitted at most once and no other event is emitted before it; message_delta
\* and message_stop are never emitted in a stream without message_start
C36_MessageStartFirst ==
  /\ Cardinality(EventsOfType(stOut, "message_start")) <= 1
  /\ stOut # <<>> => stOut[1].type = "message_start"

\* the content blocks started and stopped at an index
BlockStarts(out, index) ==
  {i \in EventsOfType(out, "content_block_start") : out[i].index = index}

BlockStops(out, index) ==
  {i \in EventsOfType(out, "content_block_stop") : out[i].index = index}

BlockIndexes(out) ==
  {out[i].index : i \in EventsOfType(out, "content_block_start")
                          \cup EventsOfType(out, "content_block_stop")}

\* [DONE] is the last line transformed
DoneProcessed == stIn # <<>> /\ stIn[Len(stIn)].kind = "done"

\* C37: within one stream every content-block index receives at most one
\* content_block_start, and once [DONE] has been processed every
\* content_block_start has exactly one content_block_stop with its index
C37_BlocksStartedOnceStoppedOnce ==
  \A index \in BlockIndexes(stOut) :
    /\ Cardinality(BlockStarts(stOut, index)) <= 1
    /\ DoneProcessed =>
         Cardinality(BlockStops(stOut, index))
           = Cardinality(BlockStarts(stOut, index))

(***************************************************************************)
(* Key validation: order of the admission checks                           *)
(***************************************************************************)
\* a request was validated and its body could be read
ReadableRequest == vkRequest # NoRequest /\ ~vkRequest.malformed

BudgetUsedUp(limit, used) == limit # NoLimit /\ used >= limit

SystemText ==
  IF tmSystem.kind = "string" THEN tmSystem.text
  ELSE IF tmSystem.kind = "array" /\ tmSystem.blocks # <<>>
  THEN "Be brief\nBe kind"
  ELSE ""

\* the positions of the tool_result blocks of a message, ascending
ResultPositions(msg) ==
  {i \in 1..Len(msg.blocks) : msg.blocks[i].type = "tool_result"}

\* the message has a block that becomes content, or a tool call
HasMainMessage(msg) ==
  \E i \in 1..Len(msg.blocks) :
    msg.blocks[i].type \in {"text", "image", "tool_use"}

\* the number of output messages of an input message
SegmentLength(msg) ==
  IF msg.isString THEN 1
  ELSE (IF HasMainMessage(msg) THEN 1 ELSE 0) + Cardinality(ResultPositions(msg))

RECURSIVE SegmentStart(_)
\* the position before the first output message of input message i
SegmentStart(i) ==
  IF i = 1 THEN (IF SystemText = "" THEN 0 ELSE 1)
  ELSE SegmentStart(i - 1) + SegmentLength(tmMessages[i - 1])

\* C35: transformMessages keeps message order: the system message, if any,
\* comes first; the input messages keep their relative order; the main
\* message of a message with array content (emitted when a block becomes
\* content or a tool call) is followed directly by one role "tool" message
\* per tool_result block, in block order, with that block's tool_use_id as
\* tool_call_id
C35_MessageOrder ==
  tmDone =>
    /\ Len(tmResult) = SegmentStart(Len(tmMessages) + 1)
    /\ SystemText # "" =>
         (tmResult[1].role = "system" /\ tmResult[1].text = SystemText)
    /\ \A i \in 1..Len(tmMessages) :
         LET msg == tmMessages[i]
             start == SegmentStart(i)
             main == IF msg.isString \/ HasMainMessage(msg) THEN 1 ELSE 0
             results == ResultPositions(msg)
         IN  /\ main = 1 =>
                  /\ tmResult[start + 1].role = msg.role
                  /\ tmResult[start + 1].tool_call_id = ""
                  /\ msg.isString => tmResult[start + 1].text = msg.text
             /\ \A p \in results :
                  LET rank == Cardinality({q \in results : q <= p})
                  IN  /\ tmResult[start + main + rank].role = "tool"
                      /\ tmResult[start + main + rank].tool_call_id
                           = msg.blocks[p].ref

C35_Witness ==
  /\ tmDone
  /\ tmSystem.kind = "array" /\ tmSystem.blocks # <<>>
  /\ Len(tmMessages) = 2
  /\ tmMessages[1] = ArrayMessage("user",
                       <<ContentBlock("tool_result", "toolu_2", "noon", TRUE),
                         ContentBlock("text", "", "Hello", FALSE)>>)
  /\ tmMessages[2] = StringMessage("assistant", "Yes")
  /\ Len(tmResult) = 4
  /\ tmResult[2].role = "user" /\ tmResult[2].text = "Hello"
  /\ tmResult[3].role = "tool" /\ tmResult[3].tool_call_id = "toolu_2"
  /\ tmResult[4].role = "assistant"


(***************************************************************************)
(* Settlement: the three writes of one batch                               *)
(***************************************************************************)
\* C38: the account update, the key update and the analytical insert of a
\* batch take effect together or not at all: a record is in an applied
\* account sum exactly when it is in an applied key sum and has a spend_logs
\* row
C38_BatchAllOrNothing ==
  \A i \in RequestIds :
    /\ (userCharged[i] > 0) <=> (keyCharged[i] > 0)
    /\ (userCharged[i] > 0) <=> (i \in chRows)


(***************************************************************************)
(* Rate limiter: the stored counters                                       *)
(***************************************************************************)
RECURSIVE AllowedCalls(_, _)
\* number of calls with a clock reading in window w, among the first n
\* instants, that returned allowed=true
AllowedCalls(w, n) ==
  IF n = 0 THEN 0
  ELSE (IF CurrentWindow(ScenarioTimes[n]) = w THEN rmAdmitted[n] ELSE 0)
         + AllowedCalls(w, n - 1)

\* C39: between calls, the counter of each live window key equals the number
\* of calls of that window that returned allowed=true (a rejected call leaves
\* it as it was), and it is not negative
C39_CounterCountsAllowed ==
  \A w \in Windows :
    KeyLive(rmStore, w, RmNow) =>
      /\ rmStore[w].count = AllowedCalls(w, Len(ScenarioTimes))
      /\ rmStore[w].count >= 0


(***************************************************************************)
(* Spend logger: the stream's content and its chunks                       *)
(***************************************************************************)
RECURSIVE ContentLines(_)
\* the lines of the text that a sequence of chunk lines spells: the two parts
\* of a data line cut by a chunk boundary are one line of the content
ContentLines(lines) ==
  IF lines = <<>> THEN <<>>
  ELSE IF /\ Len(lines) >= 2
          /\ lines[1].prefix = "data: " /\ lines[1].body = "json-head"
          /\ lines[2].body = "json-tail" /\ lines[2].usage = lines[1].usage
       THEN <<Line("data: ", "json", lines[1].usage)>>
              \o ContentLines(Tail(Tail(lines)))
       ELSE <<Head(lines)>> \o ContentLines(Tail(lines))

RECURSIVE ChunkLines(_)
\* the lines of the chunks, one chunk after the other
ChunkLines(chunks) ==
  IF chunks = <<>> THEN <<>> ELSE Head(chunks) \o ChunkLines(Tail(chunks))

\* the usage extracted when the stream's content arrives as a single chunk
ContentUsage(chunks) == UsageAfterLines(NoUsage, ContentLines(ChunkLines(chunks)))

\* C40: the usage record of a streamed response depends only on the stream's
\* content: it is the record of the usage extracted from the same content
\* delivered in one chunk, also when a data line with usage is split across
\* two consecutive chunks
C40_UsageIndependentOfChunking ==
  slPhase # "open" =>
    slRecord = IF ContentUsage(slIn) = NoUsage THEN NoRecord
               ELSE SpendRecord(ContentUsage(slIn))

====
